---- MODULE Spec2Model ----
(***************************************************************************)
(* Model of the Cooked repository's ingredient-line parsers and recipe     *)
(* import drivers, and of the backend's training-day nutrition engine and  *)
(* TrainingPeaks table normalizer.                                         *)
(*                                                                         *)
(* A Python str is a sequence of one-character strings.  The characters    *)
(* outside ASCII that the code names (the vulgar fractions, the en and em  *)
(* dash) are atoms named by their code point, e.g. "U+00BD" for the        *)
(* one-half sign.  Optional[float] is a record with a kind k ("null",      *)
(* "num" or "raise") and a reduced fraction n/d; "raise" stands for a      *)
(* Python exception leaving the function.  Optional[str] unit values are   *)
(* TLA+ strings with None for Python's None.                               *)
(***************************************************************************)
EXTENDS Integers, Sequences, FiniteSets, TLC

VARIABLES line, fn, qres, res, ings, rows, outcome,
          planned_hours, weight_kg, day_type, targets, df, out, daily, weekly,
          request, response, db, offset, processed, batch_size,
          num_chunks, input_lines, chunk_files

\* the state of the backend: one day's nutrition inputs and result, and the
\* table given to the normalizer with the value it returned
\* the state of the HTTP boundary, of the storage the import drivers and the
\* ingredient normalizer write to, and of the file splitter
platform == <<request, response, db, offset, processed, batch_size,
              num_chunks, input_lines, chunk_files>>

training == <<planned_hours, weight_kg, day_type, targets, df, out, daily, weekly, platform>>

\* the state of the recipe importers
recipes == <<line, qres, res, ings, rows, outcome>>

vars == <<line, fn, qres, res, ings, rows, outcome, training>>

-----------------------------------------------------------------------------
(* Characters and str methods                                              *)

Chars(s) == [i \in 1..Len(s) |-> SubSeq(s, i, i)]

\* a local name: F applied to the value v, which F may use many times
Let(v, F(_)) == F(v)

LowerLetters == Chars("abcdefghijklmnopqrstuvwxyz")
UpperLetters == Chars("ABCDEFGHIJKLMNOPQRSTUVWXYZ")
DigitChars == Chars("0123456789")

Range(f) == {f[i] : i \in DOMAIN f}

\* the numeral "1" followed by 400 zeros, written as one atom: a run of
\* digits that int() reads as 10^400 and float() as inf.  The lines hold it
\* as a whole numeral, never beside another digit.
BIG == "10^400"

IsDigit(c) == c \in Range(DigitChars) \cup {BIG}
IsAlpha(c) == c \in Range(LowerLetters) \cup Range(UpperLetters)
IsSpace(c) == c \in {" ", "\t", "\n"}
\* \w of the re module, on the characters the model uses
IsWord(c) == IsDigit(c) \/ IsAlpha(c) \/ c = "_"

DigitVal(c) == (CHOOSE i \in 1..10 : DigitChars[i] = c) - 1

LowerChar(c) ==
    IF c \in Range(UpperLetters)
    THEN LowerLetters[CHOOSE i \in 1..26 : UpperLetters[i] = c]
    ELSE c

\* str.lower()
Lower(s) == [i \in 1..Len(s) |-> LowerChar(s[i])]

RECURSIVE LStrip(_)
LStrip(s) == IF s = <<>> \/ ~IsSpace(s[1]) THEN s ELSE LStrip(Tail(s))

RECURSIVE RStrip(_)
RStrip(s) ==
    IF s = <<>> \/ ~IsSpace(s[Len(s)]) THEN s ELSE RStrip(SubSeq(s, 1, Len(s) - 1))

\* str.strip()
Strip(s) == RStrip(LStrip(s))

\* str.rstrip(chars)
RECURSIVE RStripChars(_, _)
RStripChars(s, cs) ==
    IF s = <<>> \/ s[Len(s)] \notin cs THEN s
    ELSE RStripChars(SubSeq(s, 1, Len(s) - 1), cs)

\* re.sub(r"\s+", " ", s)
RECURSIVE CollapseWS(_)
CollapseWS(s) ==
    IF s = <<>> THEN <<>>
    ELSE IF IsSpace(s[1]) THEN <<" ">> \o CollapseWS(LStrip(s))
    ELSE <<s[1]>> \o CollapseWS(Tail(s))

\* s[i:] with a 1-based i
From(s, i) == SubSeq(s, i, Len(s))

\* s[i-1:j] with 1-based inclusive ends, clipped to the string as slices are
Sub(s, i, j) == SubSeq(s, i, IF j > Len(s) THEN Len(s) ELSE j)

StartsWith(s, p) == Len(s) >= Len(p) /\ SubSeq(s, 1, Len(p)) = p

AllDigits(s) == \A i \in 1..Len(s) : IsDigit(s[i])

\* str.isdigit() on the characters the model uses
IsDigitStr(s) == s # <<>> /\ AllDigits(s)

\* the length of the longest prefix of s whose characters satisfy the class
RECURSIVE SpanDigits(_)
SpanDigits(s) == IF s = <<>> \/ ~IsDigit(s[1]) THEN 0 ELSE 1 + SpanDigits(Tail(s))

RECURSIVE SpanSpace(_)
SpanSpace(s) == IF s = <<>> \/ ~IsSpace(s[1]) THEN 0 ELSE 1 + SpanSpace(Tail(s))

\* the first index of character c in s, 0 when absent
RECURSIVE IndexOf(_, _)
IndexOf(s, c) ==
    IF s = <<>> THEN 0
    ELSE IF s[1] = c THEN 1
    ELSE LET r == IndexOf(Tail(s), c) IN IF r = 0 THEN 0 ELSE r + 1

Contains(s, c) == \E i \in 1..Len(s) : s[i] = c

\* str.replace(" ", "")
RECURSIVE RemoveSpaces(_)
RemoveSpaces(s) ==
    IF s = <<>> THEN <<>>
    ELSE IF s[1] = " " THEN RemoveSpaces(Tail(s))
    ELSE <<s[1]>> \o RemoveSpaces(Tail(s))

\* str.split(c): the pieces between the occurrences of the one character c
RECURSIVE SplitOn(_, _)
SplitOn(s, c) ==
    LET i == IndexOf(s, c) IN
    IF i = 0 THEN <<s>>
    ELSE <<SubSeq(s, 1, i - 1)>> \o SplitOn(From(s, i + 1), c)

\* str.split(): the maximal runs of non-whitespace characters
RECURSIVE SplitWS(_)
SplitWS(s) ==
    LET t == LStrip(s) IN
    IF t = <<>> THEN <<>>
    ELSE LET sp == SelectSeq(t, IsSpace)
             i == IF sp = <<>> THEN 0 ELSE IndexOf(t, sp[1])
         IN IF i = 0 THEN <<t>>
            ELSE <<SubSeq(t, 1, i - 1)>> \o SplitWS(From(t, i))

\* str.split(" ", 1)
SplitFirstSpace(s) ==
    LET i == IndexOf(s, " ") IN
    IF i = 0 THEN <<s>> ELSE <<SubSeq(s, 1, i - 1), From(s, i + 1)>>

\* " ".join(parts)
RECURSIVE JoinSpace(_)
JoinSpace(parts) ==
    IF parts = <<>> THEN <<>>
    ELSE IF Len(parts) = 1 THEN parts[1]
    ELSE parts[1] \o <<" ">> \o JoinSpace(Tail(parts))

-----------------------------------------------------------------------------
(* Optional[float] as an exact fraction                                    *)

None == "None"

NullQ == [k |-> "null", n |-> 0, d |-> 1]
RaiseQ == [k |-> "raise", n |-> 0, d |-> 1]
InfQ == [k |-> "inf", n |-> 0, d |-> 1]
NanQ == [k |-> "nan", n |-> 0, d |-> 1]

RECURSIVE Gcd(_, _)
Gcd(a, b) == IF b = 0 THEN a ELSE Gcd(b, a % b)

\* the number n/d, d > 0, in lowest terms
Num(n, d) == LET g == Gcd(n, d) IN [k |-> "num", n |-> n \div g, d |-> d \div g]

\* a + b on floats, None and exceptions kept apart
AddQ(a, b) ==
    IF a.k = "nan" \/ b.k = "nan" THEN NanQ
    ELSE IF a.k = "inf" \/ b.k = "inf" THEN InfQ
    ELSE Num(a.n * b.d + b.n * a.d, a.d * b.d)

\* int(s) for a digit string
RECURSIVE IntOf(_)
IntOf(s) == IF s = <<>> THEN 0 ELSE 10 * IntOf(SubSeq(s, 1, Len(s) - 1)) + DigitVal(s[Len(s)])

RECURSIVE Pow10(_)
Pow10(k) == IF k = 0 THEN 1 ELSE 10 * Pow10(k - 1)

\* float(token) for a token of digits and periods: digits with at most one
\* period among them; anything else of these characters is a ValueError,
\* which both callers turn into None
FloatOf(token) ==
    Let(IndexOf(token, "."), LAMBDA dot :
    Let(IF dot = 0 THEN token ELSE SubSeq(token, 1, dot - 1), LAMBDA ip :
    Let(IF dot = 0 THEN <<>> ELSE From(token, dot + 1), LAMBDA fp :
        IF AllDigits(ip) /\ AllDigits(fp) /\ ip \o fp # <<>>
        THEN IF BIG \in Range(ip) THEN InfQ
             ELSE Num(IntOf(ip \o fp), Pow10(Len(fp)))
        ELSE NullQ)))

-----------------------------------------------------------------------------
(* Pieces of the regular expressions                                       *)

\* length of the prefix of t matched by \d+\s*\/\s*\d+ (0: no match); every
\* quantifier is followed by a character outside its class, so the greedy
\* match is the only one
FracLen(t) ==
    Let(SpanDigits(t), LAMBDA n :
    Let(n + SpanSpace(From(t, n + 1)) + 1, LAMBDA p :
    Let(SpanSpace(From(t, p + 1)), LAMBDA s2 :
    Let(SpanDigits(From(t, p + s2 + 1)), LAMBDA d :
        IF n > 0 /\ p <= Len(t) /\ t[p] = "/" /\ d > 0 THEN p + s2 + d ELSE 0))))

\* length of the prefix of t matched by \d+\s+\d+\s*\/\s*\d+ (0: no match)
MixedLen(t) ==
    Let(SpanDigits(t), LAMBDA w :
    Let(SpanSpace(From(t, w + 1)), LAMBDA s1 :
    Let(FracLen(From(t, w + s1 + 1)), LAMBDA f :
        IF w > 0 /\ s1 > 0 /\ f > 0 THEN w + s1 + f ELSE 0)))

\* length of the prefix of t matched by \d+(\.\d+)? with the group taken
DecLen(t) ==
    Let(SpanDigits(t), LAMBDA n :
    Let(SpanDigits(From(t, n + 2)), LAMBDA d :
        IF n > 0 /\ n < Len(t) /\ t[n + 1] = "." /\ d > 0 THEN n + 1 + d ELSE 0))

\* the digit strings of "a / b"
FracParts(t) ==
    Let(IndexOf(t, "/"), LAMBDA i :
        <<Strip(SubSeq(t, 1, i - 1)), Strip(From(t, i + 1))>>)

-----------------------------------------------------------------------------
(* Quantity parsing                                                        *)

\* int(a) / int(b) on digit strings: ZeroDivisionError for a zero divisor,
\* OverflowError for a quotient beyond the floats (a numeral that holds BIG
\* over one that does not), 0.0 for one below them
TrueDiv(a, b) ==
    IF BIG \notin Range(b) /\ IntOf(b) = 0 THEN RaiseQ
    ELSE IF BIG \in Range(a) /\ BIG \notin Range(b) THEN RaiseQ
    ELSE IF BIG \in Range(b) /\ BIG \notin Range(a) THEN Num(0, 1)
    ELSE IF a = b THEN Num(1, 1)
    ELSE Num(IntOf(a), IntOf(b))

\* x / y on floats that hold whole numbers, y not 0.0
FloatDiv(x, y) ==
    IF x.k = "inf" /\ y.k = "inf" THEN NanQ
    ELSE IF x.k = "inf" THEN InfQ
    ELSE IF y.k = "inf" THEN Num(0, 1)
    ELSE Num(x.n, y.n)

fraction_to_float(token0) ==
    Let(RemoveSpaces(Strip(token0)), LAMBDA token :
        IF Contains(token, "/")
        THEN Let(SplitOn(token, "/"), LAMBDA parts :
                 IF Len(parts) = 2 /\ IsDigitStr(parts[1]) /\ IsDigitStr(parts[2])
                 THEN IF BIG \notin Range(parts[2]) /\ IntOf(parts[2]) = 0 THEN NullQ
                      ELSE TrueDiv(parts[1], parts[2])
                 ELSE NullQ)
        ELSE FloatOf(token))

\* the body of parse_quantity after its own whitespace clean-up
ParseQuantityBody(qty_str) ==
    Let(SplitWS(qty_str), LAMBDA parts :
        IF Contains(qty_str, " ") /\ Contains(qty_str, "/") /\ Len(parts) = 2
        THEN Let(fraction_to_float(parts[1]), LAMBDA a :
             Let(fraction_to_float(parts[2]), LAMBDA b :
                 IF a.k = "raise" \/ b.k = "raise" THEN RaiseQ
                 ELSE IF a.k # "null" /\ b.k # "null" THEN AddQ(a, b)
                 ELSE fraction_to_float(qty_str)))
        ELSE fraction_to_float(qty_str))

\* scripts/normalize_recipe_ingredients.py (import_100k_parsing.py has the same)
parse_quantity(qty_str) == ParseQuantityBody(CollapseWS(Strip(qty_str)))

\* str.replace("  ", " "): non-overlapping pairs of spaces, left to right
RECURSIVE ReplaceDoubleSpace(_)
ReplaceDoubleSpace(s) ==
    IF Len(s) < 2 THEN s
    ELSE IF s[1] = " " /\ s[2] = " " THEN <<" ">> \o ReplaceDoubleSpace(From(s, 3))
    ELSE <<s[1]>> \o ReplaceDoubleSpace(Tail(s))

\* import_jsonl.py
parse_quantity_jsonl(qty_str) == ParseQuantityBody(ReplaceDoubleSpace(Strip(qty_str)))

\* scripts/import_recipenlg_v3.py
parse_quantity_v3(text) ==
    Let(Strip(text), LAMBDA t :
        IF t = <<>> THEN NullQ
        ELSE IF MixedLen(t) = Len(t)
        THEN Let(SpanDigits(t), LAMBDA w :
             Let(FracParts(From(t, w + SpanSpace(From(t, w + 1)) + 1)), LAMBDA m :
             Let(FloatOf(m[2]), LAMBDA den :
                 AddQ(FloatOf(SubSeq(t, 1, w)),
                      IF den # Num(0, 1) THEN FloatDiv(FloatOf(m[1]), den) ELSE Num(0, 1)))))
        ELSE IF FracLen(t) = Len(t)
        THEN Let(FracParts(t), LAMBDA m :
             Let(FloatOf(m[2]), LAMBDA den :
                 IF den = Num(0, 1) THEN NullQ ELSE FloatDiv(FloatOf(m[1]), den)))
        ELSE IF SpanDigits(t) = Len(t) \/ DecLen(t) = Len(t) THEN FloatOf(t)
        ELSE NullQ)

-----------------------------------------------------------------------------
(* Parsing configuration                                                   *)

UNIT_ALIASES_PAIRS ==
    { <<"tsp", "tsp">>, <<"tsp.", "tsp">>, <<"teaspoon", "tsp">>, <<"teaspoons", "tsp">>,
      <<"tbsp", "tbsp">>, <<"tbsp.", "tbsp">>, <<"tablespoon", "tbsp">>, <<"tablespoons", "tbsp">>,
      <<"c", "cup">>, <<"c.", "cup">>, <<"cup", "cup">>, <<"cups", "cup">>,
      <<"lb", "lb">>, <<"lb.", "lb">>, <<"pound", "lb">>, <<"pounds", "lb">>,
      <<"oz", "oz">>, <<"oz.", "oz">>, <<"ounce", "oz">>, <<"ounces", "oz">>,
      <<"pt", "pt">>, <<"pt.", "pt">>, <<"pint", "pt">>, <<"pints", "pt">>,
      <<"qt", "qt">>, <<"qt.", "qt">>, <<"quart", "qt">>, <<"quarts", "qt">>,
      <<"stick", "stick">>, <<"sticks", "stick">>, <<"pkg", "pkg">>, <<"pkg.", "pkg">>,
      <<"package", "pkg">>, <<"packages", "pkg">>, <<"box", "box">>, <<"boxes", "box">>,
      <<"can", "can">>, <<"cans", "can">>, <<"carton", "carton">>, <<"cartons", "carton">>,
      <<"container", "container">>, <<"containers", "container">>, <<"jar", "jar">>, <<"jars", "jar">>,
      <<"dash", "dash">>, <<"pinch", "pinch">> }

\* the dict of normalize_recipe_ingredients.py, import_jsonl.py and
\* import_100k_parsing.py (the three are equal), keyed by character sequences
UNIT_ALIASES ==
    [key \in {Chars(p[1]) : p \in UNIT_ALIASES_PAIRS} |->
        (CHOOSE p \in UNIT_ALIASES_PAIRS : Chars(p[1]) = key)[2]]

UNIT_ALIASES_V3_PAIRS ==
    { <<"tsp", "tsp">>, <<"teaspoon", "tsp">>, <<"teaspoons", "tsp">>, <<"t.", "tsp">>,
      <<"tsps", "tsp">>, <<"tsp.", "tsp">>, <<"tbsp", "tbsp">>, <<"tablespoon", "tbsp">>,
      <<"tablespoons", "tbsp">>, <<"tbs", "tbsp">>, <<"tb", "tbsp">>, <<"tbs.", "tbsp">>,
      <<"tbsp.", "tbsp">>, <<"cup", "cup">>, <<"cups", "cup">>, <<"c", "cup">>,
      <<"c.", "cup">>, <<"flozz", "floz">>, <<"oz", "oz">>, <<"ounce", "oz">>,
      <<"ounces", "oz">>, <<"oz.", "oz">>, <<"lb", "lb">>, <<"lbs", "lb">>,
      <<"pound", "lb">>, <<"pounds", "lb">>, <<"lb.", "lb">>, <<"g", "g">>,
      <<"gram", "g">>, <<"grams", "g">>, <<"g.", "g">>, <<"kg", "kg">>,
      <<"kilogram", "kg">>, <<"kilograms", "kg">>, <<"kg.", "kg">>, <<"ml", "ml">>,
      <<"milliliter", "ml">>, <<"milliliters", "ml">>, <<"ml.", "ml">>, <<"l", "l">>,
      <<"liter", "l">>, <<"liters", "l">>, <<"l.", "l">>, <<"pinch", "pinch">>,
      <<"dash", "dash">>, <<"clove", "clove">>, <<"cloves", "clove">>, <<"slice", "slice">>,
      <<"slices", "slice">>, <<"can", "can">>, <<"cans", "can">>, <<"package", "pkg">>,
      <<"packages", "pkg">>, <<"pkg", "pkg">>, <<"pkg.", "pkg">>, <<"pkgs", "pkg">>,
      <<"pkgs.", "pkg">>, <<"jar", "jar">>, <<"jars", "jar">>, <<"bunch", "bunch">>,
      <<"bunches", "bunch">>, <<"piece", "piece">>, <<"pieces", "piece">> }

\* the dict of scripts/import_recipenlg_v3.py
UNIT_ALIASES_V3 ==
    [key \in {Chars(p[1]) : p \in UNIT_ALIASES_V3_PAIRS} |->
        (CHOOSE p \in UNIT_ALIASES_V3_PAIRS : Chars(p[1]) = key)[2]]

STOP_JUNK == {Chars("pam")}

UNICODE_FRACTIONS_PAIRS ==
    { <<"U+00BC", "1/4">>, <<"U+00BD", "1/2">>, <<"U+00BE", "3/4">>,
      <<"U+2153", "1/3">>, <<"U+2154", "2/3">>, <<"U+215B", "1/8">>,
      <<"U+215C", "3/8">>, <<"U+215D", "5/8">>, <<"U+215E", "7/8">> }

UNICODE_FRACTIONS ==
    [c \in {p[1] : p \in UNICODE_FRACTIONS_PAIRS} |->
        Chars((CHOOSE p \in UNICODE_FRACTIONS_PAIRS : p[1] = c)[2])]

\* the chained str.replace calls of normalize_text, one character at a time
\* (no replacement text holds a character that a later call replaces)
RECURSIVE ReplaceChars(_)
ReplaceChars(s) ==
    IF s = <<>> THEN <<>>
    ELSE (IF s[1] \in DOMAIN UNICODE_FRACTIONS THEN UNICODE_FRACTIONS[s[1]]
          ELSE IF s[1] \in {"U+2013", "U+2014"} THEN <<"-">>
          ELSE <<s[1]>>) \o ReplaceChars(Tail(s))

\* REPLACEMENTS applied in order: \s+ to one space, then the ends trimmed
normalize_text(s) == Strip(CollapseWS(ReplaceChars(s)))

normalize_unit_token(tok) ==
    Let(RStripChars(Lower(Strip(tok)), {","}), LAMBDA t :
        IF tok = <<>> THEN None
        ELSE IF t \in DOMAIN UNIT_ALIASES THEN UNIT_ALIASES[t]
        ELSE IF t # <<>> /\ t[Len(t)] = "." /\ SubSeq(t, 1, Len(t) - 1) \in DOMAIN UNIT_ALIASES
             THEN UNIT_ALIASES[SubSeq(t, 1, Len(t) - 1)]
        ELSE IF (t \o <<".">>) \in DOMAIN UNIT_ALIASES THEN UNIT_ALIASES[t \o <<".">>]
        ELSE None)

-----------------------------------------------------------------------------
(* The compiled regular expressions, as matchers                           *)

Max(S) == CHOOSE x \in S : \A y \in S : y <= x
Min(S) == CHOOSE x \in S : \A y \in S : x <= y

\* "p in s" for strings
HasSub(s, p) == \E i \in 1..(Len(s) - Len(p) + 1) : SubSeq(s, i, i + Len(p) - 1) = p

RECURSIVE SpanDigDot(_)
SpanDigDot(s) ==
    IF s = <<>> \/ ~(IsDigit(s[1]) \/ s[1] = ".") THEN 0 ELSE 1 + SpanDigDot(Tail(s))

RECURSIVE SpanUnit(_)
SpanUnit(s) ==
    IF s = <<>> \/ ~(IsAlpha(s[1]) \/ s[1] = ".") THEN 0 ELSE 1 + SpanUnit(Tail(s))

\* DASH_PINCH_RE.match(s): <<group 1, group 2>>, or <<>> for no match.
\* The strings it is given are normalized, so "." meets no newline.
DASH_PINCH_RE(s) ==
    Let(LStrip(s), LAMBDA t :
    Let(IF StartsWith(Lower(t), Chars("dash")) THEN 4
        ELSE IF StartsWith(Lower(t), Chars("pinch")) THEN 5 ELSE 0, LAMBDA w :
    Let(w + SpanSpace(From(t, w + 1)), LAMBDA o :
    Let(SpanSpace(From(t, o + 3)), LAMBDA s2 :
        IF w > 0 /\ o > w /\ Lower(Sub(t, o + 1, o + 2)) = Chars("of") /\ s2 > 0
        THEN <<SubSeq(t, 1, w), From(t, o + 3 + s2)>>
        ELSE <<>>))))

\* NO_QTY_PREFIX.match(s)
NO_QTY_PREFIX(s) ==
    \E w \in {Chars("salt"), Chars("pepper"), Chars("water"), Chars("flour"), Chars("sugar")} :
        /\ StartsWith(Lower(s), w)
        /\ (Len(s) = Len(w) \/ ~IsWord(s[Len(w) + 1]))

\* what follows a package quantity of length q in t, the text after "(\s*":
\* \s*([a-zA-Z\.]+)\s*\) ; the index of ")" in t, or 0
PkgRest(t, q) ==
    Let(q + SpanSpace(From(t, q + 1)), LAMBDA a :
    Let(SpanUnit(From(t, a + 1)), LAMBDA u :
    Let(a + u + SpanSpace(From(t, a + u + 1)) + 1, LAMBDA c :
        IF u > 0 /\ c <= Len(t) /\ t[c] = ")" THEN c ELSE 0)))

\* the length of group 1 of PACKAGE_RE in t: the alternatives in order, the
\* greedy [\d\.]+ giving characters back until the rest matches
PkgQtyLen(t, mixedAlt) ==
    Let({q \in 1..SpanDigDot(t) : PkgRest(t, q) > 0}, LAMBDA a1 :
        IF a1 # {} THEN Max(a1)
        ELSE Let(FracLen(t), LAMBDA a2 :
                 IF a2 > 0 /\ PkgRest(t, a2) > 0 THEN a2
                 ELSE Let(MixedLen(t), LAMBDA a3 :
                          IF mixedAlt /\ a3 > 0 /\ PkgRest(t, a3) > 0 THEN a3 ELSE 0)))

PkgAt(s, i, mixedAlt) ==
    IF s[i] = "(" THEN PkgQtyLen(From(s, i + 1 + SpanSpace(From(s, i + 1))), mixedAlt) ELSE 0

\* PACKAGE_RE.search(s): the leftmost match, as [found, start, end, qty, unit]
PackageSearch(s, mixedAlt) ==
    Let({i \in 1..Len(s) : PkgAt(s, i, mixedAlt) > 0}, LAMBDA hits :
        IF hits = {}
        THEN [found |-> FALSE, start |-> 0, end |-> 0, qty |-> <<>>, unit |-> <<>>]
        ELSE Let(Min(hits), LAMBDA i :
             Let(SpanSpace(From(s, i + 1)), LAMBDA sp :
             Let(From(s, i + 1 + sp), LAMBDA t :
             Let(PkgQtyLen(t, mixedAlt), LAMBDA q :
             Let(q + SpanSpace(From(t, q + 1)), LAMBDA a :
                 [found |-> TRUE, start |-> i, end |-> i + sp + PkgRest(t, q),
                  qty |-> SubSeq(t, 1, q),
                  unit |-> SubSeq(t, a + 1, a + SpanUnit(From(t, a + 1)))]))))))

\* normalize_recipe_ingredients.py: three alternatives for the quantity
PACKAGE_RE(s) == PackageSearch(s, TRUE)

\* import_jsonl.py, import_100k_parsing.py: no mixed-number alternative
PACKAGE_RE_2(s) == PackageSearch(s, FALSE)

\* \b after a digit at index n of t
BoundaryAfter(t, n) == n = Len(t) \/ ~IsWord(t[n + 1])

\* LEADING_QTY_RE.match(s): the length of group qty within LStrip(s), 0 for
\* no match.  The alternatives are tried in order; \d+(\.\d+)? gives the
\* fraction digits back when no word boundary follows them.
LeadingQtyLen(t) ==
    Let(MixedLen(t), LAMBDA m :
    Let(FracLen(t), LAMBDA f :
    Let(DecLen(t), LAMBDA d :
    Let(SpanDigits(t), LAMBDA n :
        IF m > 0 /\ BoundaryAfter(t, m) THEN m
        ELSE IF f > 0 /\ BoundaryAfter(t, f) THEN f
        ELSE IF d > 0 /\ BoundaryAfter(t, d) THEN d
        ELSE IF n > 0 /\ BoundaryAfter(t, n) THEN n
        ELSE 0))))

\* <<group qty, group rest>>, or <<>> for no match
LEADING_QTY_RE(s) ==
    Let(LStrip(s), LAMBDA t :
    Let(LeadingQtyLen(t), LAMBDA q :
        IF q = 0 THEN <<>> ELSE <<SubSeq(t, 1, q), LStrip(From(t, q + 1))>>))

NoiseWords == {Chars("to taste"), Chars("as needed"), Chars("optional")}

\* TRAILING_NOISE_RE matches from index i to the end of s
NoiseAt(s, i) ==
    Let(LStrip(From(s, i)), LAMBDA a :
        Lower(Strip(IF a # <<>> /\ a[1] = "," THEN Tail(a) ELSE a)) \in NoiseWords)

\* TRAILING_NOISE_RE.sub("", s): the leftmost match is cut; it ends the string
TRAILING_NOISE_RE_sub(s) ==
    Let({i \in 1..Len(s) : NoiseAt(s, i)}, LAMBDA hits :
        IF hits = {} THEN s ELSE SubSeq(s, 1, Min(hits) - 1))

-----------------------------------------------------------------------------
(* The parsers                                                             *)

\* the exception that left the parser, in the shape of a result
Raised ==
    [exc |-> TRUE, quantity |-> NullQ, unit |-> None, name |-> <<>>,
     package_qty |-> NullQ, package_unit |-> None]

\* the dataclass Parsed (ParsedIng in import_100k_parsing.py); a quantity
\* whose computation raised never reaches the constructor
Parsed(quantity, unit, name, package_qty, package_unit) ==
    IF quantity.k = "raise" \/ package_qty.k = "raise" THEN Raised
    ELSE [exc |-> FALSE, quantity |-> quantity, unit |-> unit, name |-> name,
          package_qty |-> package_qty, package_unit |-> package_unit]

\* <<string without the parenthetical, package_qty, package_unit>>
RemovePackage(s, m, pq) ==
    IF ~m.found THEN <<s, NullQ, None>>
    ELSE <<Strip(CollapseWS(Strip(SubSeq(s, 1, m.start - 1) \o From(s, m.end + 1)))),
           pq, normalize_unit_token(m.unit)>>

\* scripts/normalize_recipe_ingredients.py
remove_package_parens(s) ==
    Let(PACKAGE_RE(s), LAMBDA m : RemovePackage(s, m, parse_quantity(m.qty)))

\* import_jsonl.py
remove_package_parens_jsonl(s) ==
    Let(PACKAGE_RE_2(s), LAMBDA m : RemovePackage(s, m, parse_quantity_jsonl(m.qty)))

\* import_100k_parsing.py
remove_package_parens_100k(s) ==
    Let(PACKAGE_RE_2(s), LAMBDA m : RemovePackage(s, m, parse_quantity(m.qty)))

\* the part of the three parse functions from the LEADING_QTY_RE match on
AfterPackage(wo, qty, m) ==
    IF m = <<>> THEN Parsed(NullQ, None, wo[1], wo[2], wo[3])
    ELSE Let(Strip(m[2]), LAMBDA rest :
         IF rest = <<>> THEN Parsed(qty, None, <<>>, wo[2], wo[3])
         ELSE Let(SplitFirstSpace(rest), LAMBDA parts :
              Let(normalize_unit_token(parts[1]), LAMBDA unit :
                  IF unit = None THEN Parsed(qty, None, rest, wo[2], wo[3])
                  ELSE Let(IF Len(parts) > 1 THEN Strip(parts[2]) ELSE <<>>, LAMBDA name :
                           Parsed(qty, unit,
                                  IF StartsWith(Lower(name), Chars("of "))
                                  THEN Strip(From(name, 4)) ELSE name,
                                  wo[2], wo[3])))))

\* scripts/normalize_recipe_ingredients.py
parse_raw_line(raw_line) ==
    Let(normalize_text(raw_line), LAMBDA raw :
        IF raw = <<>> THEN Parsed(NullQ, None, <<>>, NullQ, None)
        ELSE IF NO_QTY_PREFIX(raw)
                /\ (HasSub(Lower(raw), Chars("to taste")) \/ HasSub(Lower(raw), Chars("and pepper")))
        THEN Parsed(NullQ, None, raw, NullQ, None)
        ELSE Let(DASH_PINCH_RE(raw), LAMBDA m_dp :
             IF m_dp # <<>>
             THEN Parsed(Num(1, 1), normalize_unit_token(m_dp[1]), Strip(m_dp[2]), NullQ, None)
             ELSE Let(remove_package_parens(raw), LAMBDA wo :
                  Let(LEADING_QTY_RE(wo[1]), LAMBDA m :
                      AfterPackage(wo, IF m = <<>> THEN NullQ ELSE parse_quantity(m[1]), m)))))

\* import_jsonl.py
parse_raw_line_jsonl(raw_line) ==
    Let(Strip(TRAILING_NOISE_RE_sub(normalize_text(raw_line))), LAMBDA raw :
    Let(DASH_PINCH_RE(raw), LAMBDA m_dp :
        IF m_dp # <<>>
        THEN Parsed(Num(1, 1), normalize_unit_token(m_dp[1]), Strip(m_dp[2]), NullQ, None)
        ELSE Let(remove_package_parens_jsonl(raw), LAMBDA wo :
             Let(LEADING_QTY_RE(wo[1]), LAMBDA m :
                 AfterPackage(wo, IF m = <<>> THEN NullQ ELSE parse_quantity_jsonl(m[1]), m)))))

\* import_100k_parsing.py
parse_ingredient(raw_line) ==
    Let(normalize_text(raw_line), LAMBDA raw :
    Let(DASH_PINCH_RE(raw), LAMBDA m_dp :
        IF m_dp # <<>>
        THEN Parsed(Num(1, 1), normalize_unit_token(m_dp[1]), normalize_text(m_dp[2]),
                    NullQ, None)
        ELSE Let(remove_package_parens_100k(raw), LAMBDA wo :
             Let(LEADING_QTY_RE(wo[1]), LAMBDA m :
                 AfterPackage(wo, IF m = <<>> THEN NullQ ELSE parse_quantity(m[1]), m)))))

\* re.sub(r"\([^)]*\)", " ", s): each "(" that a ")" follows is cut through
\* the first ")" after it
RECURSIVE RemoveParens(_)
RemoveParens(s) ==
    LET c == IndexOf(s, ")") IN
    IF s = <<>> THEN <<>>
    ELSE IF s[1] = "(" /\ c > 0 THEN <<" ">> \o RemoveParens(From(s, c + 1))
    ELSE <<s[1]>> \o RemoveParens(Tail(s))

\* re.sub(r"^(of|a|an)\s+", "", name, flags=re.I)
StripConnector(name) ==
    Let(Lower(name), LAMBDA l :
    Let(IF StartsWith(l, Chars("of")) /\ SpanSpace(From(name, 3)) > 0 THEN 2
        ELSE IF StartsWith(l, Chars("a")) /\ SpanSpace(From(name, 2)) > 0 THEN 1
        ELSE IF StartsWith(l, Chars("an")) /\ SpanSpace(From(name, 3)) > 0 THEN 2
        ELSE 0, LAMBDA w :
        IF w = 0 THEN name ELSE LStrip(From(name, w + 1))))

\* tokens[i].lower().strip().rstrip(".,;:")
UnitCandidate(tok) == RStripChars(Strip(Lower(tok)), {".", ",", ";", ":"})

\* scripts/import_recipenlg_v3.py: (qty, unit_std, name); the function has no
\* package fields, which the record shows as None
parse_ingredient_line(line0) ==
    Let(Strip(line0), LAMBDA raw :
        IF raw = <<>> THEN Parsed(NullQ, None, <<>>, NullQ, None)
        ELSE
        Let(SplitOn(Strip(CollapseWS(RemoveParens(raw))), " "), LAMBDA tokens :
        Let(IF Len(tokens) >= 2
            THEN parse_quantity_v3(tokens[1] \o <<" ">> \o tokens[2]) ELSE NullQ, LAMBDA q2 :
        Let(IF q2.k # "null" THEN q2 ELSE parse_quantity_v3(tokens[1]), LAMBDA qty :
        Let(IF q2.k # "null" THEN 2 ELSE IF qty.k # "null" THEN 1 ELSE 0,
            LAMBDA qty_tokens_used :
        Let(qty_tokens_used > 0 /\ Len(tokens) > qty_tokens_used, LAMBDA hasCand :
        Let(IF hasCand THEN UnitCandidate(tokens[qty_tokens_used + 1]) ELSE <<>>,
            LAMBDA cand1 :
        Let(hasCand /\ cand1 = Chars("fl") /\ Len(tokens) > qty_tokens_used + 1, LAMBDA isFl :
        Let(isFl /\ UnitCandidate(tokens[qty_tokens_used + 2]) = Chars("oz"), LAMBDA flOz :
        Let(IF flOz THEN "floz"
            ELSE IF hasCand /\ ~isFl /\ cand1 \in DOMAIN UNIT_ALIASES_V3
            THEN UNIT_ALIASES_V3[cand1]
            ELSE None, LAMBDA unit_std :
        Let(IF flOz THEN qty_tokens_used + 2
            ELSE IF unit_std # None THEN qty_tokens_used + 1
            ELSE qty_tokens_used, LAMBDA name_start_idx :
        Let(Strip(CollapseWS(Strip(StripConnector(
                Strip(JoinSpace(SubSeq(tokens, name_start_idx + 1, Len(tokens)))))))),
            LAMBDA name :
            Parsed(qty, unit_std, IF name # <<>> THEN name ELSE raw, NullQ, None)))))))))))))

\* scripts/import_recipenlg_v3.py
is_junk_ingredient(line0) ==
    Let(Strip(line0), LAMBDA t :
    Let(SpanDigits(t), LAMBDA n :
        \/ t = <<>>
        \/ n > 0 /\ n < Len(t) /\ t[n + 1] = "." /\ SpanSpace(From(t, n + 2)) = Len(t) - n - 1
        \/ Lower(Strip(t)) \in STOP_JUNK))

-----------------------------------------------------------------------------
(* State machine: one ingredient line and the functions applied to it      *)

NoResult == Parsed(NullQ, None, <<>>, NullQ, None)

\* the backend at rest: nothing classified, no table read
NoTargets ==
    [kcal |-> 0, protein_g |-> 0, carbs_g |-> 0, fat_g |-> 0, intra_cho_g_per_h |-> 0,
     exc |-> "none"]
NoTable == [columns |-> <<>>, cells |-> <<>>, exc |-> "none"]
\* nothing has been requested, stored or split
NoResponse == [status |-> "none", detail |-> "", rows |-> <<>>, read |-> FALSE,
               normalized |-> FALSE, computed |-> FALSE, saved |-> FALSE]
NoRequest == [authorization |-> "none", csv |-> "none", supabase_enabled |-> FALSE]
NoDb == [recipes |-> <<>>, recipe_ingredients |-> <<>>, recipe_steps |-> <<>>]

NoPlatform ==
    /\ request = NoRequest
    /\ response = NoResponse
    /\ db = NoDb
    /\ offset = 0
    /\ processed = 0
    /\ batch_size = 0
    /\ num_chunks = 0
    /\ input_lines = <<>>
    /\ chunk_files = <<>>

NoTraining ==
    /\ NoPlatform
    /\ planned_hours = NullQ
    /\ weight_kg = Num(0, 1)
    /\ day_type = "none"
    /\ targets = NoTargets
    /\ df = NoTable
    /\ out = NoTable
    /\ daily = NoTable
    /\ weekly = NoTable

\* the words of `ws` joined by single spaces
Line(ws) == JoinSpace(ws)

\* the longest line, in words
MaxWords == 3

\* the words a line is made of: one vocabulary per family of lines
VocabQty ==
    {Chars(w) : w \in {"", "2", "1/2", "1/0", "1.5", "Tsp.", "cups,", "g", "of", "salt"}}
    \cup {<<BIG, "/", "1">>}
VocabPkg ==
    {Chars(w) : w \in {"2", "(16 oz.)", "(..", "oz)", "(1", "1/2", "c.)", "pkg.", "an", "corn"}}
VocabDash ==
    {Chars(w) : w \in {"dash", "Pinch", "OF", "salt", "(8 oz.)", ", to taste", ", Optional",
                       "3", "fl", "oz"}}

Vocabularies == {VocabQty, VocabPkg, VocabDash}

WordSeqs(V) == UNION {[1..n -> V] : n \in 0..MaxWords}

Lines == UNION {{Line(ws) : ws \in WordSeqs(V)} : V \in Vocabularies}

ParseFns == {"parse_raw_line", "parse_raw_line_jsonl", "parse_ingredient", "parse_ingredient_line"}

InitParse ==
    /\ line \in Lines
    /\ fn = "none"
    /\ res = NoResult
    /\ qres = NullQ
    /\ ings = <<>>
    /\ rows = <<>>
    /\ outcome = "none"
    /\ NoTraining

\* scripts/normalize_recipe_ingredients.py: p = parse_raw_line(raw_line)
ParseRawLine ==
    /\ fn = "none"
    /\ fn' = "parse_raw_line"
    /\ res' = parse_raw_line(line)
    /\ UNCHANGED <<line, qres, ings, rows, outcome, training>>

\* import_jsonl.py: p = parse_raw_line(raw_line_s)
ParseRawLineJsonl ==
    /\ fn = "none"
    /\ fn' = "parse_raw_line_jsonl"
    /\ res' = parse_raw_line_jsonl(line)
    /\ UNCHANGED <<line, qres, ings, rows, outcome, training>>

\* import_100k_parsing.py: p = parse_ingredient(raw_ing)
ParseIngredient ==
    /\ fn = "none"
    /\ fn' = "parse_ingredient"
    /\ res' = parse_ingredient(line)
    /\ UNCHANGED <<line, qres, ings, rows, outcome, training>>

\* scripts/import_recipenlg_v3.py: parse_ingredient_line(ing_text)
ParseIngredientLine ==
    /\ fn = "none"
    /\ fn' = "parse_ingredient_line"
    /\ res' = parse_ingredient_line(line)
    /\ UNCHANGED <<line, qres, ings, rows, outcome, training>>

Next == ParseRawLine \/ ParseRawLineJsonl \/ ParseIngredient \/ ParseIngredientLine

\* the parsers applied to one ingredient line
Spec == InitParse /\ [][Next]_vars

-----------------------------------------------------------------------------
(* State machine: one quantity string and the parse_quantity functions     *)

\* the largest whole part, numerator and denominator
MaxNum == 3

\* str(n) for n >= 0
RECURSIVE Digits(_)
Digits(n) ==
    IF n < 10 THEN <<DigitChars[n + 1]>>
    ELSE Digits(n \div 10) \o <<DigitChars[(n % 10) + 1]>>

FracStr(a, b) == Digits(a) \o <<"/">> \o Digits(b)
MixedStr(w, a, b) == Digits(w) \o <<" ">> \o FracStr(a, b)
DecStr(a, b) == Digits(a) \o <<".">> \o Digits(b)

Nums == 0..MaxNum

QtyStrings ==
    {Digits(a) : a \in Nums}
    \cup {FracStr(a, b) : a \in Nums, b \in Nums}
    \cup {DecStr(a, b) : a \in Nums, b \in Nums}
    \cup {MixedStr(w, a, b) : w \in Nums, a \in Nums, b \in Nums}
    \cup {<<BIG>>, <<BIG, "/", "1">>, <<"1", "/", BIG>>, <<"1", " ", BIG, "/", "1">>}

InitQty ==
    /\ line \in QtyStrings
    /\ fn = "none"
    /\ res = NoResult
    /\ qres = NullQ
    /\ ings = <<>>
    /\ rows = <<>>
    /\ outcome = "none"
    /\ NoTraining

\* scripts/normalize_recipe_ingredients.py: qty = parse_quantity(qty_str)
ParseQuantity ==
    /\ fn = "none"
    /\ fn' = "parse_quantity"
    /\ qres' = parse_quantity(line)
    /\ UNCHANGED <<line, res, ings, rows, outcome, training>>

\* import_jsonl.py: qty = parse_quantity(qty_str)
ParseQuantityJsonl ==
    /\ fn = "none"
    /\ fn' = "parse_quantity_jsonl"
    /\ qres' = parse_quantity_jsonl(line)
    /\ UNCHANGED <<line, res, ings, rows, outcome, training>>

\* scripts/import_recipenlg_v3.py: parse_quantity(tokens[0] + " " + tokens[1])
ParseQuantityV3 ==
    /\ fn = "none"
    /\ fn' = "parse_quantity_v3"
    /\ qres' = parse_quantity_v3(line)
    /\ UNCHANGED <<line, res, ings, rows, outcome, training>>

NextQty == ParseQuantity \/ ParseQuantityJsonl \/ ParseQuantityV3

SpecQty == InitQty /\ [][NextQty]_vars

-----------------------------------------------------------------------------
(* State machine: the ingredient list of one recipe and the import drivers *)

\* s[:n]
Take(s, n) == SubSeq(s, 1, Min({n, Len(s)}))

\* the caps the v3 and 100k drivers put on the stored fields
RawLineCap == 2000
NameCapV3 == 300
NameCap100k == 500

\* one recipe_ingredients row; name_null is TRUE when the name column is NULL
Row(raw_line, name, name_null, parsed_quantity, parsed_unit, sort_order) ==
    [raw_line |-> raw_line, name |-> name, name_null |-> name_null,
     parsed_quantity |-> parsed_quantity, parsed_unit |-> parsed_unit,
     sort_order |-> sort_order]

\* import_jsonl.py: the loop that fills ing_values, from element i on
RECURSIVE ing_values(_, _, _)
ing_values(xs, i, acc) ==
    IF i > Len(xs) THEN acc
    ELSE Let(Strip(normalize_text(xs[i])), LAMBDA raw_line_s :
             IF raw_line_s = <<>> THEN ing_values(xs, i + 1, acc)
             ELSE Let(parse_raw_line_jsonl(raw_line_s), LAMBDA p :
                  Let(Strip(normalize_text(p.name)), LAMBDA name :
                      ing_values(xs, i + 1,
                          Append(acc, Row(raw_line_s, name, name = <<>>,
                                          p.quantity, p.unit, Len(acc) + 1))))))

\* scripts/import_recipenlg_v3.py: the loop that fills ingredients_to_insert
RECURSIVE ingredients_to_insert(_, _, _)
ingredients_to_insert(xs, i, acc) ==
    IF i > Len(xs) THEN acc
    ELSE Let(Strip(xs[i]), LAMBDA ing_text :
             IF is_junk_ingredient(ing_text) THEN ingredients_to_insert(xs, i + 1, acc)
             ELSE Let(parse_ingredient_line(ing_text), LAMBDA p :
                      ingredients_to_insert(xs, i + 1,
                          Append(acc, Row(Take(ing_text, RawLineCap),
                                          Take(IF p.name # <<>> THEN p.name ELSE ing_text,
                                               NameCapV3),
                                          FALSE, p.quantity, p.unit, i)))))

\* import_100k_parsing.py: parse_list on the decoded JSON list
parse_list(xs) == SelectSeq([i \in 1..Len(xs) |-> Strip(xs[i])], LAMBDA x : x # <<>>)

\* import_100k_parsing.py: the loop that fills ings_batch
RECURSIVE ings_batch(_, _, _)
ings_batch(xs, i, acc) ==
    IF i > Len(xs) THEN acc
    ELSE Let(parse_ingredient(xs[i]), LAMBDA p :
             ings_batch(xs, i + 1,
                 Append(acc, Row(xs[i],
                                 Take(IF p.name # <<>> THEN normalize_text(p.name)
                                      ELSE normalize_text(xs[i]), NameCap100k),
                                 FALSE, p.quantity, p.unit, i))))

\* the most ingredient lines in a recipe
MaxIngs == 2

\* the ingredient texts of the source records
IngTexts ==
    {Chars(""), Chars("1."), Chars("pam"), Chars("2 cups"), Chars("1  egg"), Chars(" salt"),
     <<"U+00BD">> \o Chars(" cup")}

InitImport ==
    /\ ings \in UNION {[1..n -> IngTexts] : n \in 0..MaxIngs}
    /\ fn = "none"
    /\ line = <<>>
    /\ res = NoResult
    /\ qres = NullQ
    /\ rows = <<>>
    /\ outcome = "none"
    /\ NoTraining

\* the insert of the rows v: it succeeds, or it fails and is only logged
Insert(v) ==
    IF v = <<>> THEN outcome' = "ok" /\ rows' = rows
    ELSE \E ok \in BOOLEAN :
             /\ outcome' = IF ok THEN "ok" ELSE "insert_failed"
             /\ rows' = IF ok THEN v ELSE rows

\* import_jsonl.py: import_batch_supabase, the ingredients of one record
ImportBatchSupabase ==
    /\ fn = "none"
    /\ fn' = "import_batch_supabase"
    /\ IF Len(ings) = 0
       THEN outcome' = "RuntimeError" /\ rows' = rows
       ELSE Insert(ing_values(ings, 1, <<>>))
    /\ UNCHANGED <<line, qres, res, ings, training>>

\* scripts/import_recipenlg_v3.py: import_batch, the ingredients of one record
ImportBatch ==
    /\ fn = "none"
    /\ fn' = "import_batch"
    /\ Insert(ingredients_to_insert(ings, 1, <<>>))
    /\ UNCHANGED <<line, qres, res, ings, training>>

\* import_100k_parsing.py: main, the ingredients of one CSV row
Import100k ==
    /\ fn = "none"
    /\ fn' = "main"
    /\ Insert(ings_batch(parse_list(ings), 1, <<>>))
    /\ UNCHANGED <<line, qres, res, ings, training>>

NextImport == ImportBatchSupabase \/ ImportBatch \/ Import100k

SpecImport == InitImport /\ [][NextImport]_vars

-----------------------------------------------------------------------------
(* Properties                                                              *)

\* the function named f applied to the line l
Apply(f, l) ==
    IF f = "parse_raw_line" THEN parse_raw_line(l)
    ELSE IF f = "parse_raw_line_jsonl" THEN parse_raw_line_jsonl(l)
    ELSE IF f = "parse_ingredient" THEN parse_ingredient(l)
    ELSE parse_ingredient_line(l)

EndsWith(s, p) == Len(s) >= Len(p) /\ SubSeq(s, Len(s) - Len(p) + 1, Len(s)) = p

IsOptQ(q) == q.k \in {"null", "inf", "nan"} \/ (q.k = "num" /\ q.n >= 0 /\ q.d > 0)

\* C1: the ingredient-line parsers are total: for every line (empty,
\* whitespace-only, with a zero denominator, with a malformed or unbalanced
\* parenthetical) they return a record of optional numbers, an optional unit
\* and a name, and never raise; the record of the empty string is
\* quantity = null, unit = null, name = "".
C1_ParserTotal ==
    fn \in ParseFns =>
        /\ res.exc = FALSE
        /\ IsOptQ(res.quantity) /\ IsOptQ(res.package_qty)
        /\ (line = <<>> => res.quantity = NullQ /\ res.unit = None /\ res.name = <<>>)

\* the package parentheticals the lines can hold, with their values
PackageTexts ==
    { [text |-> Chars("(16 oz.)"), qty |-> Num(16, 1), unit |-> "oz"],
      [text |-> Chars("(8 oz.)"), qty |-> Num(8, 1), unit |-> "oz"],
      [text |-> Chars("(1 1/2 c.)"), qty |-> Num(3, 2), unit |-> "cup"] }

\* the indices at which the text p starts in s
Occurrences(s, p) == {i \in 1..(Len(s) - Len(p) + 1) : SubSeq(s, i, i + Len(p) - 1) = p}

AllPackageStarts(s) == UNION {Occurrences(s, p.text) : p \in PackageTexts}

\* s with the Len(p) characters from index i cut out and the whitespace
\* collapsed
Without(s, i, p) == Strip(CollapseWS(SubSeq(s, 1, i - 1) \o From(s, i + Len(p))))

\* C2: for every line that holds a package parenthetical, at any position,
\* the first one is returned as package_quantity/package_unit and quantity,
\* unit and name are those of the line without it (lines with one
\* parenthetical are compared, so that "without it" leaves none).  Stated of
\* the parses that return.
C2_PackageExtraction ==
    (fn \in {"parse_raw_line", "parse_ingredient_line"} /\ ~res.exc) =>
        \A p \in PackageTexts :
            \A i \in Occurrences(line, p.text) :
                i = Min(AllPackageStarts(line)) =>
                    /\ res.package_qty = p.qty
                    /\ res.package_unit = p.unit
                    /\ Cardinality(AllPackageStarts(line)) = 1 =>
                           LET r == Apply(fn, Without(line, i, p.text))
                           IN res.quantity = r.quantity /\ res.unit = r.unit
                              /\ res.name = r.name

\* the unit a token resolves to: lowercased, trailing commas and one
\* trailing period dropped, then looked up in the alias table
TokenKey(tok) == RStripChars(Lower(tok), {","})

TokenUnit(tok) ==
    LET key == TokenKey(tok)
        bare == IF key # <<>> /\ key[Len(key)] = "." THEN SubSeq(key, 1, Len(key) - 1) ELSE key
    IN IF key \in DOMAIN UNIT_ALIASES THEN UNIT_ALIASES[key]
       ELSE IF bare \in DOMAIN UNIT_ALIASES THEN UNIT_ALIASES[bare]
       ELSE None

\* C3: whenever parse_raw_line finds a leading quantity and a token follows
\* it, the token is lowercased, stripped of a trailing period/comma and
\* looked up in the alias table; if it resolves, unit is the normalized
\* token and name is the remainder with a leading "of " removed; if not,
\* unit is null and name is the whole remainder, beginning with the token.
C3_UnitToken ==
    fn = "parse_raw_line" =>
        LET wo == remove_package_parens(normalize_text(line))[1]
            m == LEADING_QTY_RE(wo)
            toks == SplitWS(m[2])
            after == Strip(From(m[2], Len(toks[1]) + 1))
        IN (m # <<>> /\ m[2] # <<>>) =>
               IF TokenUnit(toks[1]) # None
               THEN /\ res.unit = TokenUnit(toks[1])
                    /\ res.name = IF StartsWith(Lower(after), Chars("of "))
                                  THEN Strip(From(after, 4)) ELSE after
               ELSE res.unit = None /\ res.name = m[2]

\* C4: for all non-negative integers a, b, w: parse_quantity("a/b") is a/b
\* when b # 0 and null when b = 0; parse_quantity("w a/b") is w + a/b when
\* b # 0 and null, never a number, when b = 0.
C4_FractionArithmetic ==
    fn \in {"parse_quantity", "parse_quantity_v3"} =>
        \A a \in Nums, b \in Nums :
            /\ line = FracStr(a, b) =>
                   qres = IF b = 0 THEN NullQ ELSE Num(a, b)
            /\ \A w \in Nums :
                   line = MixedStr(w, a, b) =>
                       qres = IF b = 0 THEN NullQ ELSE Num(w * b + a, b)

DashWords == {"dash", "pinch"}

\* C5: every line "(dash|pinch) of <rest>", in any letter case, parses to
\* quantity 1, the unit dash or pinch in lower case and name <rest>, with no
\* package extraction and no leading-quantity extraction applied to <rest>.
C5_DashPinch ==
    (fn \in {"parse_raw_line", "parse_ingredient_line"} /\ ~res.exc) =>
        \A w \in DashWords :
            LET head == Chars(w) \o Chars(" of ")
                rest == From(line, Len(head) + 1)
            IN (StartsWith(Lower(line), head) /\ rest # <<>>) =>
                   /\ res.quantity = Num(1, 1)
                   /\ res.unit = w
                   /\ res.name = rest
                   /\ res.package_qty = NullQ /\ res.package_unit = None

\* the lines that are a quantity alone, or a quantity and a unit
QuantityOnlyLines ==
    {Chars("2"), Chars("1/2"), Chars("1.5"), Chars("2 cups,"), Chars("1/2 Tsp.")}

\* C6: the name is never empty for a line that holds text; when extraction
\* leaves no name ("2 cups", "3") the name is the full raw line.  Stated of
\* the parses that return.
C6_NameFallback ==
    (fn \in {"parse_raw_line", "parse_ingredient_line"} /\ ~res.exc) =>
        /\ Strip(line) # <<>> => res.name # <<>>
        /\ line \in QuantityOnlyLines => res.name = line

ClosedUnits ==
    {"tsp", "tbsp", "cup", "floz", "oz", "lb", "g", "kg", "ml", "l", "pinch", "dash",
     "clove", "slice", "can", "pkg", "jar", "bunch", "piece", "stick", "box", "carton",
     "container", "pt", "qt"}

\* C7: unit and package_unit are always null or a member of the closed set,
\* and for every member u of the set the line "<n> <u> <name>" parses with
\* unit = u.  Stated of the parses that return.
C7_ClosedUnitSet ==
    (fn \in {"parse_raw_line", "parse_ingredient_line"} /\ ~res.exc) =>
        /\ res.unit \in ClosedUnits \cup {None}
        /\ res.package_unit \in ClosedUnits \cup {None}
        /\ \A u \in ClosedUnits :
               line = Chars("2 ") \o Chars(u) \o Chars(" salt") => res.unit = u

Qualifiers == {Chars(", to taste"), Chars(", as needed"), Chars(", optional")}

\* C8: for every line that ends with ", to taste", ", as needed" or
\* ", optional" in any letter case, the result is the parse of the line
\* without the qualifier and the name does not contain the qualifier.
C8_TrailingNoise ==
    (fn \in {"parse_raw_line", "parse_raw_line_jsonl"} /\ ~res.exc) =>
        \A q \in Qualifiers :
            EndsWith(Lower(line), q) =>
                /\ res = Apply(fn, SubSeq(line, 1, Len(line) - Len(q)))
                /\ ~HasSub(Lower(res.name), q)

ImportFns == {"import_batch_supabase", "import_batch", "main"}

\* C9: the raw_line of every persisted ingredient row is the text of an
\* ingredient of the source record, character for character.
C9_RawLineVerbatim ==
    fn \in ImportFns =>
        \A k \in 1..Len(rows) : \E i \in 1..Len(ings) : rows[k].raw_line = ings[i]

\* an empty line, a bare ordinal marker or a stopword
JunkLine(l) ==
    LET t == Strip(l)
    IN \/ t = <<>>
       \/ Len(t) >= 2 /\ t[Len(t)] = "." /\ AllDigits(SubSeq(t, 1, Len(t) - 1))
       \/ Lower(t) \in STOP_JUNK

\* C10: a junk line (empty, bare ordinal marker, stopword) raises no error
\* and is never persisted, while every other line of the recipe is: after a
\* successful import the rows are as many as the lines that are not junk.
C10_JunkFiltering ==
    (fn \in {"import_batch_supabase", "import_batch"} /\ Len(ings) > 0) =>
        /\ outcome # "RuntimeError"
        /\ outcome = "ok" => Len(rows) = Cardinality({i \in 1..Len(ings) : ~JunkLine(ings[i])})

-----------------------------------------------------------------------------
(* backend: services/day_classifier.py and services/nutrition_engine.py    *)
(*                                                                         *)
(* A float is the record of the quantities above: a reduced fraction, or   *)
(* inf, or nan; None is NullQ.  Every comparison with nan is false.        *)

IsNum(x) == x.k = "num"

\* x < y and x == y on floats, y finite
LtQ(x, y) == IsNum(x) /\ IsNum(y) /\ x.n * y.d < y.n * x.d
EqQ(x, y) == IsNum(x) /\ IsNum(y) /\ x.n * y.d = y.n * x.d

\* x * y, x - y and x / 9 on finite floats
MulQ(x, y) == Num(x.n * y.n, x.d * y.d)
SubQ(x, y) == Num(x.n * y.d - y.n * x.d, x.d * y.d)
IntQ(i) == Num(i, 1)

\* round(x) of a finite float: the nearest integer, a tie going to the even one
RoundQ(x) ==
    Let(x.n \div x.d, LAMBDA lo :
        Let(x.n - lo * x.d, LAMBDA r :
            IF 2 * r < x.d THEN lo
            ELSE IF 2 * r > x.d THEN lo + 1
            ELSE IF lo % 2 = 0 THEN lo ELSE lo + 1))

\* max(x, 0): 0 only when 0 > x
MaxZero(x) == IF LtQ(x, IntQ(0)) THEN IntQ(0) ELSE x

DayTypes == {"REST", "EASY", "MODERATE", "HARD"}

classify_day(hours) ==
    IF hours = NullQ \/ EqQ(hours, IntQ(0)) THEN "REST"
    ELSE IF LtQ(hours, IntQ(1)) THEN "EASY"
    ELSE IF LtQ(hours, IntQ(2)) THEN "MODERATE"
    ELSE "HARD"

\* the dict nutrition_targets returns; exc names the exception that round()
\* raises for a weight that is nan (ValueError) or inf (OverflowError)
Targets(kcal, protein_g, carbs_g, fat_g, intra_cho) ==
    [kcal |-> RoundQ(kcal), protein_g |-> RoundQ(protein_g), carbs_g |-> RoundQ(carbs_g),
     fat_g |-> RoundQ(fat_g), intra_cho_g_per_h |-> intra_cho, exc |-> "none"]

RaisedTargets(e) == [NoTargets EXCEPT !.exc = e]

\* kcal, then carbs_g, of the day type
KcalOf(w, dt) ==
    IF dt = "REST" THEN MulQ(IntQ(30), w)
    ELSE IF dt = "EASY" THEN MulQ(IntQ(30), w)
    ELSE IF dt = "MODERATE" THEN AddQ(MulQ(IntQ(30), w), IntQ(300))
    ELSE AddQ(MulQ(IntQ(30), w), IntQ(600))

CarbsOf(w, dt) ==
    IF dt = "REST" THEN MulQ(IntQ(3), w)
    ELSE IF dt = "EASY" THEN MulQ(IntQ(4), w)
    ELSE IF dt = "MODERATE" THEN MulQ(IntQ(5), w)
    ELSE MulQ(IntQ(7), w)

IntraCho(hours) ==
    IF hours = NullQ \/ LtQ(hours, IntQ(1)) THEN 0
    ELSE IF LtQ(hours, Num(3, 2)) THEN 30
    ELSE IF LtQ(hours, Num(5, 2)) THEN 60
    ELSE 75

nutrition_targets(w, dt, hours) ==
    IF w.k = "nan" THEN RaisedTargets("ValueError")
    ELSE IF w.k = "inf" THEN RaisedTargets("OverflowError")
    ELSE Let(MulQ(Num(8, 5), w), LAMBDA protein_g :
         Let(KcalOf(w, dt), LAMBDA kcal :
         Let(CarbsOf(w, dt), LAMBDA carbs_g :
             Targets(kcal, protein_g, carbs_g,
                     MaxZero(MulQ(SubQ(kcal, AddQ(MulQ(protein_g, IntQ(4)),
                                                  MulQ(carbs_g, IntQ(4)))),
                                  Num(1, 9))),
                     IntraCho(hours)))))

\* the longest planned session, in quarters of an hour, and the heaviest
\* athlete, in half kilograms
MaxHoursQ == 12
MaxWeightHalfKg == 500

\* planned_hours as a row of workouts_mvp.csv holds it: a number, or nan for
\* an empty cell; None when the caller has no value
HoursValues == {NullQ, NanQ, InfQ} \cup {Num(q, 4) : q \in (0 - 2)..MaxHoursQ}
WeightValues == {NanQ, InfQ} \cup {Num(k, 2) : k \in 0..MaxWeightHalfKg}

InitNutrition ==
    /\ planned_hours \in HoursValues
    /\ weight_kg \in WeightValues
    /\ day_type \in DayTypes
    /\ targets = NoTargets
    /\ fn = "none"
    /\ line = <<>>
    /\ res = NoResult
    /\ qres = NullQ
    /\ ings = <<>>
    /\ rows = <<>>
    /\ outcome = "none"
    /\ df = NoTable
    /\ out = NoTable
    /\ daily = NoTable
    /\ weekly = NoTable
    /\ NoPlatform

\* scripts/generate_nutrition_plan.py: day_type = classify_day(row.get("planned_hours"))
ClassifyDay ==
    /\ fn = "none"
    /\ fn' = "classify_day"
    /\ day_type' = classify_day(planned_hours)
    /\ UNCHANGED <<recipes, planned_hours, weight_kg, targets, df, out, daily, weekly, platform>>

\* scripts/generate_nutrition_plan.py: targets = nutrition_targets(...), and
\* the function called with any day type
NutritionTargets ==
    /\ fn \in {"none", "classify_day"}
    /\ fn' = IF fn = "none" THEN "nutrition_targets" ELSE "main"
    /\ targets' = nutrition_targets(weight_kg, day_type, planned_hours)
    /\ UNCHANGED <<recipes, planned_hours, weight_kg, day_type, df, out, daily, weekly, platform>>

NextNutrition == ClassifyDay \/ NutritionTargets

SpecNutrition == InitNutrition /\ [][NextNutrition]_vars

-----------------------------------------------------------------------------
(* Properties of the nutrition engine                                      *)

\* a missing value: None, or the nan that pandas gives an empty cell
IsNull(x) == x.k \in {"null", "nan"}

\* the day type of the thresholds
DayTypeOf(hours) ==
    IF IsNull(hours) \/ EqQ(hours, IntQ(0)) THEN "REST"
    ELSE IF LtQ(hours, IntQ(1)) THEN "EASY"
    ELSE IF LtQ(hours, IntQ(2)) THEN "MODERATE"
    ELSE "HARD"

\* C11: classify_day maps planned_hours to a day type by fixed thresholds
\* for every input: a missing value or 0 gives REST, a value below 1.0 gives
\* EASY, a value from 1.0 up to but excluding 2.0 gives MODERATE, and a
\* value of 2.0 or more gives HARD; the result is one of these four values.
C11_ClassifyDay ==
    fn = "classify_day" =>
        /\ day_type \in DayTypes
        /\ day_type = DayTypeOf(planned_hours)

\* r is x rounded to an integer: no integer is nearer to x
IsRounded(r, x) == 2 * (r * x.d - x.n) <= x.d /\ 2 * (x.n - r * x.d) <= x.d

\* the reference figures per kilogram and the flat additions
RefKcalAdd(dt) == IF dt = "MODERATE" THEN 300 ELSE IF dt = "HARD" THEN 600 ELSE 0
RefCarbsPerKg(dt) ==
    IF dt = "REST" THEN 3 ELSE IF dt = "EASY" THEN 4 ELSE IF dt = "MODERATE" THEN 5 ELSE 7
RefKcal(w, dt) == AddQ(MulQ(IntQ(30), w), IntQ(RefKcalAdd(dt)))
RefProtein(w) == MulQ(Num(16, 10), w)
RefCarbs(w, dt) == MulQ(IntQ(RefCarbsPerKg(dt)), w)
RefFat(w, dt) ==
    Let(MulQ(SubQ(SubQ(RefKcal(w, dt), MulQ(IntQ(4), RefProtein(w))),
                  MulQ(IntQ(4), RefCarbs(w, dt))), Num(1, 9)),
        LAMBDA f : IF f.n < 0 THEN IntQ(0) ELSE f)
RefIntra(hours) ==
    IF IsNull(hours) \/ LtQ(hours, IntQ(1)) THEN 0
    ELSE IF LtQ(hours, Num(15, 10)) THEN 30
    ELSE IF LtQ(hours, Num(25, 10)) THEN 60
    ELSE 75

\* C12: nutrition_targets equals the reference formula for every weight,
\* day type and planned_hours: kcal = 30*w (+300 MODERATE, +600 HARD),
\* carbs 3/4/5/7 g per kg, protein 1.6 g per kg, fat = max(0, (kcal -
\* 4*protein - 4*carbs)/9), each rounded to an integer, and the intra-workout
\* rate 0 below 1.0 h or for a missing value, 30 below 1.5 h, 60 below 2.5 h,
\* 75 from 2.5 h.
C12_NutritionTargets ==
    (fn \in {"nutrition_targets", "main"} /\ IsNum(weight_kg)) =>
        /\ targets.exc = "none"
        /\ IsRounded(targets.kcal, RefKcal(weight_kg, day_type))
        /\ IsRounded(targets.protein_g, RefProtein(weight_kg))
        /\ IsRounded(targets.carbs_g, RefCarbs(weight_kg, day_type))
        /\ IsRounded(targets.fat_g, RefFat(weight_kg, day_type))
        /\ targets.intra_cho_g_per_h = RefIntra(planned_hours)

-----------------------------------------------------------------------------
(* backend: utils/tp_parsing.py, the column normalizer                     *)
(*                                                                         *)
(* A DataFrame is its column labels, in order, and its rows, each a        *)
(* sequence of cells in the order of the labels; exc names the exception   *)
(* that left the function instead of a table.  A cell is a str, a float    *)
(* (nan for a missing value), None, a bool, a date or NaT.                 *)

StrCell(s) == [t |-> "str", s |-> s, v |-> NullQ]
NumCell(x) == [t |-> "num", s |-> "", v |-> x]
NaNCell == NumCell(NanQ)
NoneCell == [t |-> "none", s |-> "", v |-> NullQ]
BoolCell(b) == [t |-> "bool", s |-> "", v |-> IF b THEN IntQ(1) ELSE IntQ(0)]
DateCell(d) == [t |-> "date", s |-> "", v |-> IntQ(d)]
NaTCell == [t |-> "nat", s |-> "", v |-> NullQ]

\* Series.notna() of one cell
NotNa(c) == ~(c.t \in {"none", "nat"} \/ (c.t = "num" /\ c.v.k = "nan"))

\* two cells that hold the same value; every null (None, NaN, NaT) is the
\* same null
SameCell(a, b) == IF NotNa(a) /\ NotNa(b) THEN a = b ELSE ~NotNa(a) /\ ~NotNa(b)

DataFrame(columns, cells) == [columns |-> columns, cells |-> cells, exc |-> "none"]
RaisedTable(e) == [columns |-> <<>>, cells |-> <<>>, exc |-> e]

\* the position of the label in df.columns, 0 when it is not a column
ColumnIndex(t, label) ==
    IF \E i \in 1..Len(t.columns) : t.columns[i] = label
    THEN CHOOSE i \in 1..Len(t.columns) : t.columns[i] = label
    ELSE 0

\* df[label] as the sequence of its cells
Column(t, label) == [r \in 1..Len(t.cells) |-> t.cells[r][ColumnIndex(t, label)]]

\* the alias tables, as (key, candidates) in the order of the dict literals
RAW_COLUMNS ==
    << <<"workout_day", <<"WorkoutDay">> >>,
       <<"workout_type", <<"WorkoutType">> >>,
       <<"title", <<"Title">> >>,
       <<"description", <<"WorkoutDescription">> >>,
       <<"planned_hours", <<"PlannedDuration (hours)", "PlannedDurationHours">> >>,
       <<"planned_meters", <<"PlannedDistanceInMeters">> >>,
       <<"actual_hours", <<"TimeTotalInHours">> >>,
       <<"actual_meters", <<"DistanceInMeters">> >>,
       <<"if", <<"IF">> >>,
       <<"tss", <<"TSS">> >>,
       <<"power_avg", <<"PowerAverage">> >>,
       <<"hr_avg", <<"HeartRateAverage">> >>,
       <<"rpe", <<"Rpe">> >>,
       <<"feeling", <<"Feeling">> >>,
       <<"coach_comments", <<"CoachComments">> >>,
       <<"athlete_comments", <<"AthleteComments">> >> >>

MVP_COLUMNS ==
    << <<"workout_day", <<"workout_day", "workoutday", "date", "day">> >>,
       <<"workout_type", <<"workout_type", "workouttype", "type">> >>,
       <<"title", <<"title">> >>,
       <<"description", <<"description", "workout_description">> >>,
       <<"coach_comments", <<"coach_comments", "coachcomments">> >>,
       <<"athlete_comments", <<"athlete_comments", "athletecomments">> >>,
       <<"planned_hours", <<"planned_hours", "plannedhours">> >>,
       <<"planned_km", <<"planned_km", "plannedkm">> >>,
       <<"actual_hours", <<"actual_hours", "actualhours">> >>,
       <<"actual_km", <<"actual_km", "actualkm">> >>,
       <<"if", <<"if">> >>,
       <<"tss", <<"tss">> >>,
       <<"power_avg", <<"power_avg", "poweraverage">> >>,
       <<"hr_avg", <<"hr_avg", "heartrateaverage">> >>,
       <<"rpe", <<"rpe">> >>,
       <<"feeling", <<"feeling">> >>,
       <<"source", <<"source">> >> >>

\* the candidates of a key in an alias table
Candidates(table, key) == table[CHOOSE i \in 1..Len(table) : table[i][1] = key][2]

\* str.isalnum() of one character
IsAlnum(c) == IsAlpha(c) \/ c \in Range(DigitChars)

\* _simplify: lower case, then only the alphanumeric characters
_simplify(name) == SelectSeq(Lower(Chars(name)), IsAlnum)

\* the column labels of the tables
Labels ==
    {"WorkoutDay", "PlannedDuration", "TimeTotalInHours", "PlannedDistanceInMeters",
     "DistanceInMeters", "PlannedDurationHours", "TSS", "Title", "title ", "WorkoutType",
     "Planned Hours", "Notes", "date", "has_actual", "week", "dow"}

\* _simplify of every label, alias and key, each computed once
Simplified ==
    [name \in Labels
              \cup UNION {Range(RAW_COLUMNS[i][2]) \cup {RAW_COLUMNS[i][1]} :
                             i \in 1..Len(RAW_COLUMNS)}
              \cup UNION {Range(MVP_COLUMNS[i][2]) \cup {MVP_COLUMNS[i][1]} :
                             i \in 1..Len(MVP_COLUMNS)}
     |-> _simplify(name)]

\* simplified.get(key): the dict comprehension keeps the last column of a
\* simplified spelling; "" stands for None (both are false in `if match`)
SimplifiedGet(columns, key) ==
    Let({i \in 1..Len(columns) : Simplified[columns[i]] = key}, LAMBDA S :
        IF S = {} THEN "" ELSE columns[Max(S)])

RECURSIVE _get_column(_, _)
_get_column(columns, candidates) ==
    IF candidates = <<>> THEN ""
    ELSE Let(SimplifiedGet(columns, Simplified[Head(candidates)]), LAMBDA match :
             IF match # "" THEN match ELSE _get_column(columns, Tail(candidates)))

mvp_detection_keys == <<"workout_day", "planned_hours", "planned_km", "actual_hours", "actual_km">>

has_mvp(columns) ==
    \E i \in 1..Len(mvp_detection_keys) :
        _get_column(columns, Candidates(MVP_COLUMNS, mvp_detection_keys[i])) # ""

\* the loop over the items of an alias table: the keys whose column exists,
\* with that column, in the order of the table
RECURSIVE DataOf(_, _)
DataOf(columns, table) ==
    IF table = <<>> THEN <<>>
    ELSE Let(_get_column(columns, Head(table)[2]), LAMBDA column :
             (IF column # "" THEN << <<Head(table)[1], column>> >> ELSE <<>>)
             \o DataOf(columns, Tail(table)))

\* pd.DataFrame(data) of a dict of columns of df: an empty dict gives the
\* empty frame, which has no rows
FrameOf(df0, data) ==
    IF data = <<>> THEN DataFrame(<<>>, <<>>)
    ELSE DataFrame([i \in 1..Len(data) |-> data[i][1]],
                   [r \in 1..Len(df0.cells) |->
                       [i \in 1..Len(data) |-> df0.cells[r][ColumnIndex(df0, data[i][2])]]])

parse_tp_df(df0) ==
    FrameOf(df0, DataOf(df0.columns,
                        IF has_mvp(df0.columns) THEN MVP_COLUMNS ELSE RAW_COLUMNS))

\* the days of the calendar that the tables name: the text of the day, its
\* number (days since 1970-01-01), its ISO week label, its weekly period and
\* the name of its weekday
Calendar ==
    { [s |-> "1970-01-01", ord |-> 0, week |-> "1970-W01",
       period |-> "1969-12-29/1970-01-04", dow |-> "Thursday"],
      [s |-> "2024-01-01", ord |-> 19723, week |-> "2024-W01",
       period |-> "2024-01-01/2024-01-07", dow |-> "Monday"],
      [s |-> "2024-01-02", ord |-> 19724, week |-> "2024-W01",
       period |-> "2024-01-01/2024-01-07", dow |-> "Tuesday"],
      [s |-> "2024-01-08", ord |-> 19730, week |-> "2024-W02",
       period |-> "2024-01-08/2024-01-14", dow |-> "Monday"] }

DayOf(c) == CHOOSE e \in Calendar : e.ord = c.v.n

\* pd.to_datetime(values, errors="coerce") followed by .dt.date, of one
\* cell: a date, the text of a day, or NaT for anything that is not a day.
\* A finite number counts nanoseconds from the epoch, which for the numbers
\* of the tables is within 1970-01-01.
ToDate(c) ==
    IF c.t = "date" THEN c
    ELSE IF c.t = "str" /\ \E e \in Calendar : e.s = c.s
    THEN DateCell((CHOOSE e \in Calendar : e.s = c.s).ord)
    ELSE IF c.t = "num" /\ c.v.k = "num" THEN DateCell(0)
    ELSE NaTCell

\* pd.to_numeric(values, errors="coerce") of one cell
ToNumeric(c) ==
    IF c.t \in {"num", "bool"} THEN NumCell(c.v)
    ELSE IF c.t = "str"
    THEN Let(FloatOf(Chars(c.s)), LAMBDA x : IF x.k = "null" THEN NaNCell ELSE NumCell(x))
    ELSE NaNCell

\* safe_numeric of tp_parsing.py on one cell of a Series
safe_numeric(c) == ToNumeric(c)

\* x / 1000 of one float cell
Div1000(c) == IF c.v.k = "num" THEN NumCell(MulQ(c.v, Num(1, 1000))) ELSE c

UpperChar(c) ==
    IF c \in Range(LowerLetters)
    THEN UpperLetters[CHOOSE i \in 1..26 : LowerLetters[i] = c]
    ELSE c

\* str.title(): a letter after a non-letter in upper case, the others in lower
Title(s) ==
    [i \in 1..Len(s) |->
        IF i = 1 \/ ~IsAlpha(s[i - 1]) THEN UpperChar(s[i]) ELSE LowerChar(s[i])]

\* a sequence of characters as a str
RECURSIVE Str(_)
Str(cs) == IF cs = <<>> THEN "" ELSE Head(cs) \o Str(Tail(cs))

\* str(value) of a cell that is text, a bool, a date or NaT
CellText(c) ==
    IF c.t = "str" THEN c.s
    ELSE IF c.t = "bool" THEN (IF c.v.n = 1 THEN "True" ELSE "False")
    ELSE IF c.t = "date" THEN DayOf(c).s
    ELSE "NaT"

\* normalize_workout_type of tp_parsing.py on one cell of text or a missing
\* value (the tables hold no number as a workout type)
normalize_workout_type(c) ==
    IF c.t = "none" \/ c.t = "num" THEN NoneCell
    ELSE Let(Strip(Chars(CellText(c))), LAMBDA text :
             IF text = <<>> THEN NoneCell ELSE StrCell(Str(Title(text))))

\* the week label of one day of day_series; na_week is the label that the
\* pandas in use builds for NaT
WeekCell(c, na_week) == IF c.t = "date" THEN StrCell(DayOf(c).week) ELSE na_week
NaWeekLabels == {StrCell("<NA>-W<NA>"), NaNCell}

\* day_series.dt.day_name() of one day
DowCell(c) == IF c.t = "date" THEN StrCell(DayOf(c).dow) ELSE NaNCell

\* the columns of the frame build_mvp_dataset returns
MvpOutputColumns ==
    <<"workout_day", "workout_type", "title", "description", "coach_comments",
      "athlete_comments", "planned_hours", "planned_km", "actual_hours", "actual_km",
      "if", "tss", "power_avg", "hr_avg", "rpe", "feeling", "has_actual", "week", "dow",
      "source">>

\* parsed.get(key) is a Series
Has(parsed, key) == ColumnIndex(parsed, key) # 0

\* the cell of row r of parsed.get(key): None when the key is no column
Get(parsed, key, r) ==
    IF Has(parsed, key) THEN parsed.cells[r][ColumnIndex(parsed, key)] ELSE NoneCell

\* safe_numeric(parsed.get(key)) at row r
GetNumeric(parsed, key, r) ==
    IF Has(parsed, key) THEN safe_numeric(Get(parsed, key, r)) ELSE NoneCell

\* planned_km / actual_km at row r: the km column, else the meters / 1000
GetKm(parsed, km, meters, r) ==
    IF Has(parsed, km) THEN safe_numeric(Get(parsed, km, r))
    ELSE IF Has(parsed, meters) THEN Div1000(safe_numeric(Get(parsed, meters, r)))
    ELSE NoneCell

\* has_actual at row r
HasActual(parsed, r) ==
    IF Has(parsed, "actual_hours") \/ Has(parsed, "actual_km") \/ Has(parsed, "actual_meters")
    THEN BoolCell(NotNa(GetNumeric(parsed, "actual_hours", r))
                  \/ NotNa(GetKm(parsed, "actual_km", "actual_meters", r)))
    ELSE BoolCell(FALSE)

\* the value of one output column at row r
MvpCell(parsed, key, r, na_week) ==
    IF key = "workout_day"
    THEN (IF Has(parsed, key) THEN ToDate(Get(parsed, key, r)) ELSE NoneCell)
    ELSE IF key = "workout_type"
    THEN (IF Has(parsed, key) THEN normalize_workout_type(Get(parsed, key, r)) ELSE NoneCell)
    ELSE IF key \in {"title", "description", "coach_comments", "athlete_comments"}
    THEN Get(parsed, key, r)
    ELSE IF key = "planned_km" THEN GetKm(parsed, "planned_km", "planned_meters", r)
    ELSE IF key = "actual_km" THEN GetKm(parsed, "actual_km", "actual_meters", r)
    ELSE IF key = "has_actual" THEN HasActual(parsed, r)
    ELSE IF key = "week"
    THEN (IF Has(parsed, "workout_day")
          THEN WeekCell(ToDate(Get(parsed, "workout_day", r)), na_week) ELSE NoneCell)
    ELSE IF key = "dow"
    THEN (IF Has(parsed, "workout_day")
          THEN DowCell(ToDate(Get(parsed, "workout_day", r))) ELSE NoneCell)
    ELSE IF key = "source"
    THEN (IF Has(parsed, key) THEN Get(parsed, key, r) ELSE StrCell("trainingpeaks_export"))
    ELSE GetNumeric(parsed, key, r)

\* build_mvp_dataset of tp_parsing.py.  A frame whose columns match no alias
\* parses to the empty frame; every value of the output dict is then a
\* scalar and pd.DataFrame raises ValueError.
MvpFrame(parsed, na_week) ==
    IF parsed.columns = <<>> THEN RaisedTable("ValueError")
    ELSE DataFrame(MvpOutputColumns,
                   [r \in 1..Len(parsed.cells) |->
                       [i \in 1..Len(MvpOutputColumns) |->
                           MvpCell(parsed, MvpOutputColumns[i], r, na_week)]])

build_mvp_dataset(df0, na_week) == MvpFrame(parse_tp_df(df0), na_week)

-----------------------------------------------------------------------------
(* Aggregation: groupby(group_field, dropna=False).agg(...)                *)

\* the place of a group key in the sorted order of the groups: dates by day,
\* week labels by their first day, and a label of no week ("<NA>-W<NA>",
\* "NaT") after every label that starts with a digit
KeyRank(c) ==
    IF c.t = "date" THEN c.v.n
    ELSE IF \E e \in Calendar : c.s \in {e.week, e.period}
    THEN Min({e.ord : e \in {x \in Calendar : c.s \in {x.week, x.period}}})
    ELSE Max({e.ord : e \in Calendar}) + 1

RECURSIVE SortedKeys(_)
SortedKeys(S) ==
    IF S = {} THEN <<>>
    ELSE Let(CHOOSE k \in S : \A j \in S : KeyRank(k) <= KeyRank(j), LAMBDA k :
             <<k>> \o SortedKeys(S \ {k}))

\* the keys of the groups: the distinct keys in ascending order and, with
\* dropna=False, the null key after them
GroupKeys(t, group_field) ==
    Let(Column(t, group_field), LAMBDA keys :
        SortedKeys({keys[r] : r \in {x \in DOMAIN keys : NotNa(keys[x])}})
        \o (IF \E r \in DOMAIN keys : ~NotNa(keys[r])
            THEN <<keys[CHOOSE r \in DOMAIN keys : ~NotNa(keys[r])]>> ELSE <<>>))

\* the cells of a column in the rows of one group, in the order of the rows
GroupCells(t, group_field, key, label) ==
    Let(SelectSeq([r \in 1..Len(t.cells) |-> r],
                  LAMBDA r : SameCell(t.cells[r][ColumnIndex(t, group_field)], key)),
        LAMBDA rs : [i \in 1..Len(rs) |-> t.cells[rs[i]][ColumnIndex(t, label)]])

\* "sum": the non-null cells added up, 0 when there is none
RECURSIVE SumCells(_)
SumCells(cs) ==
    IF cs = <<>> THEN IntQ(0)
    ELSE IF NotNa(Head(cs)) THEN AddQ(Head(cs).v, SumCells(Tail(cs)))
    ELSE SumCells(Tail(cs))

\* "count": the number of non-null cells
CountCells(cs) == Len(SelectSeq(cs, NotNa))

\* "mean": the sum of the non-null cells over their number, NaN when there
\* is none
MeanCells(cs) ==
    IF CountCells(cs) = 0 THEN NanQ
    ELSE Let(SumCells(cs), LAMBDA total : Num(total.n, total.d * CountCells(cs)))

sum_fields == <<"planned_hours", "planned_km", "actual_hours", "actual_km", "tss">>
mean_fields == <<"if", "power_avg", "hr_avg", "rpe", "feeling">>

\* a column that build_mvp_dataset filled with the scalar None has dtype
\* object
IsObjectNone(t, label) ==
    \A r \in 1..Len(t.cells) : t.cells[r][ColumnIndex(t, label)].t = "none"

\* _aggregate of tp_parsing.py on an MVP data set.  The mean of an object
\* column holding only None depends on the pandas build: it raises
\* (object_mean = "raise") or gives NaN (object_mean = "nan").
ObjectMeans == {"raise", "nan"}

_aggregate(t, group_field, object_mean) ==
    IF t.exc # "none" THEN t
    ELSE IF object_mean = "raise" /\ Len(t.cells) > 0
            /\ \E i \in 1..Len(mean_fields) : IsObjectNone(t, mean_fields[i])
    THEN RaisedTable("TypeError")
    ELSE Let(GroupKeys(t, group_field), LAMBDA keys :
         DataFrame(<<group_field>> \o sum_fields \o mean_fields \o <<"workouts_count">>,
                   [g \in 1..Len(keys) |->
                       <<keys[g]>>
                       \o [i \in 1..Len(sum_fields) |->
                              NumCell(SumCells(GroupCells(t, group_field, keys[g], sum_fields[i])))]
                       \o [i \in 1..Len(mean_fields) |->
                              NumCell(MeanCells(GroupCells(t, group_field, keys[g], mean_fields[i])))]
                       \o <<NumCell(IntQ(Len(GroupCells(t, group_field, keys[g], group_field))))>>]))

aggregate_daily(mvp, object_mean) == _aggregate(mvp, "workout_day", object_mean)

aggregate_weekly(mvp, object_mean) == _aggregate(mvp, "week", object_mean)

-----------------------------------------------------------------------------
(* services/tp_normalize.py                                                *)

\* df.columns = [c.strip() for c in df.columns]
StripColumns(df0) ==
    [df0 EXCEPT !.columns = [i \in 1..Len(df0.columns) |-> Str(Strip(Chars(df0.columns[i])))]]

\* lines 28-32: date and planned_hours of every row of mvp, a missing
\* planned_hours filled with 0.0
DailyRows(mvp) ==
    DataFrame(<<"date", "planned_hours">>,
              [r \in 1..Len(mvp.cells) |->
                  <<ToDate(Get(mvp, "workout_day", r)),
                    Let(ToNumeric(Get(mvp, "planned_hours", r)), LAMBDA h :
                        IF NotNa(h) THEN h ELSE NumCell(IntQ(0)))>>])

\* line 34: daily.dropna(subset=["date"])
DropNaDate(t) == [t EXCEPT !.cells = SelectSeq(t.cells, LAMBDA row : NotNa(row[1]))]

\* lines 35-41: the planned hours of each date added up, dates ascending
SumByDate(t) ==
    Let(GroupKeys(t, "date"), LAMBDA keys :
        DataFrame(t.columns,
                  [g \in 1..Len(keys) |->
                      <<keys[g], NumCell(SumCells(GroupCells(t, "date", keys[g], "planned_hours")))>>]))

\* df.empty
Empty(df0) == Len(df0.cells) = 0 \/ df0.columns = <<>>

\* lines 20-26: mvp
NormalizedMvp(df0, na_week) ==
    IF Has(StripColumns(df0), "workout_day") /\ Has(StripColumns(df0), "planned_hours")
    THEN StripColumns(df0)
    ELSE build_mvp_dataset(StripColumns(df0), na_week)

normalize_and_aggregate_tp_df(df0, na_week) ==
    IF Empty(df0) THEN DataFrame(<<"date", "planned_hours">>, <<>>)
    ELSE Let(NormalizedMvp(df0, na_week), LAMBDA mvp :
             IF mvp.exc # "none" THEN mvp ELSE SumByDate(DropNaDate(DailyRows(mvp))))

-----------------------------------------------------------------------------
(* scripts/extract_tp_csv.py                                               *)

\* safe_numeric of extract_tp_csv.py on one cell: in a column of dtype
\* object every cell is written as text and its commas become periods, the
\* texts "nan", "None" and "" become NaN, and the rest is read as a number
safe_numeric_csv(c) ==
    IF c.t = "str"
    THEN Let([i \in 1..Len(c.s) |-> IF Chars(c.s)[i] = "," THEN "." ELSE Chars(c.s)[i]],
             LAMBDA text :
                 IF text \in {Chars("nan"), Chars("None"), <<>>} THEN NaNCell
                 ELSE Let(FloatOf(text), LAMBDA x :
                          IF x.k = "null" THEN NaNCell ELSE NumCell(x)))
    ELSE IF c.t = "num" THEN c
    ELSE NaNCell

\* km_from_meters on one cell
km_from_meters(c) == Div1000(safe_numeric_csv(safe_numeric_csv(c)))

\* normalize_workout_type of extract_tp_csv.py on one cell: the cell as
\* text (NaN as "nan"), stripped; the mapping leaves every text as it is
normalize_workout_type_csv(c) ==
    StrCell(Str(Strip(Chars(IF c.t = "str" THEN c.s ELSE "nan"))))

\* the raw column that each canonical column is read from
CsvColumns ==
    << <<"workout_day", "WorkoutDay">>, <<"workout_type", "WorkoutType">>,
       <<"title", "Title">>, <<"description", "WorkoutDescription">>,
       <<"planned_hours", "PlannedDuration">>, <<"planned_km", "PlannedDistanceInMeters">>,
       <<"actual_hours", "TimeTotalInHours">>, <<"actual_km", "DistanceInMeters">>,
       <<"if", "IF">>, <<"tss", "TSS">>, <<"power_avg", "PowerAverage">>,
       <<"hr_avg", "HeartRateAverage">>, <<"rpe", "Rpe">>, <<"feeling", "Feeling">>,
       <<"coach_comments", "CoachComments">>, <<"athlete_comments", "AthleteComments">> >>

\* cfg.keep_cols + ["has_actual", "week", "dow"]
CsvOutputColumns ==
    [i \in 1..Len(CsvColumns) |-> CsvColumns[i][1]] \o <<"has_actual", "week", "dow">>

\* one cell of out[key] before the derived fields: the column as
\* load_and_parse left it, or the scalar of the else branch
CsvCell(df0, key, r) ==
    Let(CsvColumns[CHOOSE i \in 1..Len(CsvColumns) : CsvColumns[i][1] = key][2], LAMBDA column :
        IF key = "workout_day"
        THEN (IF Has(df0, column) THEN ToDate(Get(df0, column, r)) ELSE NaTCell)
        ELSE IF key = "workout_type"
        THEN (IF Has(df0, column) THEN normalize_workout_type_csv(Get(df0, column, r))
              ELSE NoneCell)
        ELSE IF key \in {"title", "description", "coach_comments", "athlete_comments"}
        THEN Get(df0, column, r)
        ELSE IF key \in {"planned_km", "actual_km"}
        THEN (IF Has(df0, column) THEN km_from_meters(Get(df0, column, r)) ELSE NaNCell)
        ELSE (IF Has(df0, column) THEN safe_numeric_csv(Get(df0, column, r)) ELSE NaNCell))

\* the derived fields of one row
CsvDerived(df0, key, r) ==
    IF key = "has_actual"
    THEN BoolCell(NotNa(CsvCell(df0, "actual_hours", r)) \/ NotNa(CsvCell(df0, "actual_km", r))
                  \/ NotNa(CsvCell(df0, "tss", r)))
    ELSE IF key = "week"
    THEN Let(CsvCell(df0, "workout_day", r), LAMBDA day :
             StrCell(IF day.t = "date" THEN DayOf(day).period ELSE "NaT"))
    ELSE IF key = "dow" THEN DowCell(CsvCell(df0, "workout_day", r))
    ELSE CsvCell(df0, key, r)

\* load_and_parse after read_csv, then build_mvp_dataset, of
\* extract_tp_csv.py, on a table that has the column WorkoutDay
build_mvp_dataset_csv(df0) ==
    DataFrame(CsvOutputColumns,
              [r \in 1..Len(df0.cells) |->
                  [i \in 1..Len(CsvOutputColumns) |->
                      CsvDerived(StripColumns(df0), CsvOutputColumns[i], r)]])

\* aggregate_daily and aggregate_weekly of extract_tp_csv.py
aggregate_csv(mvp, group_field) ==
    Let(GroupKeys(mvp, group_field), LAMBDA keys :
        DataFrame(<<group_field>> \o sum_fields \o <<"workouts">>,
                  [g \in 1..Len(keys) |->
                      <<keys[g]>>
                      \o [i \in 1..Len(sum_fields) |->
                             NumCell(SumCells(GroupCells(mvp, group_field, keys[g], sum_fields[i])))]
                      \o <<NumCell(IntQ(CountCells(GroupCells(mvp, group_field, keys[g], "title"))))>>]))

aggregate_daily_csv(mvp) == aggregate_csv(mvp, "workout_day")

aggregate_weekly_csv(mvp) == aggregate_csv(mvp, "week")

-----------------------------------------------------------------------------
(* State machine: one table given to the normalizer                        *)

\* the most rows in a table
MaxRows == 2

\* the column sets of the tables: raw exports, canonical exports and mixes
Schemas ==
    { <<"WorkoutDay", "PlannedDuration", "TimeTotalInHours">>,
      <<"WorkoutDay", "PlannedDistanceInMeters", "TSS">>,
      <<"PlannedDurationHours", "PlannedDistanceInMeters", "DistanceInMeters">>,
      <<"TimeTotalInHours", "TSS">>,
      <<"TSS", "Title">>,
      <<"workout_day", "planned_hours", "planned_km">>,
      <<"date", "actual_km", "tss">>,
      <<"Title", "title ", "WorkoutType">>,
      <<"Planned Hours">>,
      <<"Notes">>,
      <<>> }

\* the cells a column of that label holds
CellsOf(label) ==
    IF label \in {"WorkoutDay", "workout_day", "date"}
    THEN {StrCell("2024-01-01"), StrCell("2024-01-08"), StrCell("someday")}
    ELSE IF label = "Planned Hours"
    THEN {NumCell(Num(3, 2)), NaNCell, StrCell("1,234"), StrCell("12"), StrCell("nan"),
          StrCell("None"), StrCell(""), StrCell("abc")}
    ELSE IF label = "PlannedDuration" THEN {NumCell(Num(3, 2)), NaNCell, StrCell("1,234")}
    ELSE IF label \in {"PlannedDistanceInMeters", "DistanceInMeters"}
    THEN {NumCell(IntQ(1500)), NaNCell}
    ELSE IF label \in {"Title", "title ", "Notes"} THEN {StrCell("Run"), NaNCell}
    ELSE IF label = "WorkoutType" THEN {StrCell(" bike ride"), NaNCell}
    ELSE IF label = "TSS" \/ label = "tss" THEN {NumCell(IntQ(50)), NaNCell}
    ELSE {NumCell(Num(3, 2)), NaNCell}

\* the rows of a schema: one cell of its column for each label
RowsOf(schema) ==
    {row \in [1..Len(schema) -> UNION {CellsOf(schema[i]) : i \in 1..Len(schema)}] :
        \A i \in 1..Len(schema) : row[i] \in CellsOf(schema[i])}

Tables ==
    UNION {{DataFrame(schema, cells) :
               cells \in UNION {[1..n -> RowsOf(schema)] : n \in 0..MaxRows}} :
           schema \in Schemas}

InitNormalize ==
    /\ df \in Tables
    /\ out = NoTable
    /\ daily = NoTable
    /\ weekly = NoTable
    /\ NoPlatform
    /\ fn = "none"
    /\ outcome = "none"
    /\ line = <<>>
    /\ res = NoResult
    /\ qres = NullQ
    /\ ings = <<>>
    /\ rows = <<>>
    /\ planned_hours = NullQ
    /\ weight_kg = Num(0, 1)
    /\ day_type = "none"
    /\ targets = NoTargets

\* utils/tp_parsing.py as the file stands: lines 95-99 write the subscripts
\* as [\"workout_day\"], a backslash outside a string literal, which the
\* compiler rejects; importing the module raises SyntaxError.  The
\* operators above and the actions below read those lines as the
\* subscripts ["workout_day"] that they spell.
ImportTpParsing ==
    /\ fn = "none"
    /\ fn' = "import"
    /\ outcome' = "SyntaxError"
    /\ UNCHANGED <<line, qres, res, ings, rows, training>>

\* scripts/tp_extract_and_viz.py: raw_parsed = parse_tp_df(df)
ParseTpDf ==
    /\ fn = "none"
    /\ fn' = "parse_tp_df"
    /\ out' = parse_tp_df(df)
    /\ outcome' = "ok"
    /\ UNCHANGED <<line, qres, res, ings, rows, planned_hours, weight_kg, day_type, targets, df,
                   daily, weekly, platform>>

\* services/tp_normalize.py, scripts/tp_to_supabase.py: mvp = build_mvp_dataset(df)
BuildMvpDataset ==
    /\ fn = "none"
    /\ fn' = "build_mvp_dataset"
    /\ \E na_week \in NaWeekLabels : out' = build_mvp_dataset(df, na_week)
    /\ outcome' = IF out'.exc = "none" THEN "ok" ELSE out'.exc
    /\ UNCHANGED <<line, qres, res, ings, rows, planned_hours, weight_kg, day_type, targets, df,
                   daily, weekly, platform>>

\* mvp["planned_hours"].notna().sum() == 0
AllPlannedHoursNa(mvp) ==
    \A r \in 1..Len(mvp.cells) : ~NotNa(mvp.cells[r][ColumnIndex(mvp, "planned_hours")])

\* scripts/tp_extract_and_viz.py, main: the table parsed, the MVP data set
\* built from the parsed table, the test that some planned_hours is there,
\* and the two summaries
TpExtractAndViz ==
    /\ fn = "none"
    /\ fn' = "tp_extract_and_viz"
    /\ \E na_week \in NaWeekLabels : out' = build_mvp_dataset(parse_tp_df(df), na_week)
    /\ \E object_mean \in ObjectMeans :
          IF out'.exc # "none" \/ AllPlannedHoursNa(out')
          THEN UNCHANGED <<daily, weekly>>
          ELSE /\ daily' = aggregate_daily(out', object_mean)
               /\ weekly' = IF daily'.exc # "none" THEN weekly
                            ELSE aggregate_weekly(out', object_mean)
    /\ outcome' = IF out'.exc # "none" THEN out'.exc
                  ELSE IF AllPlannedHoursNa(out') THEN "RuntimeError"
                  ELSE IF daily'.exc # "none" THEN daily'.exc
                  ELSE "ok"
    /\ UNCHANGED <<line, qres, res, ings, rows, planned_hours, weight_kg, day_type, targets, df,
                   platform>>

\* scripts/extract_tp_csv.py, main, on an export that has the column
\* WorkoutDay: the table parsed, the MVP data set and the two summaries
ExtractTpCsv ==
    /\ fn = "none"
    /\ Has(StripColumns(df), "WorkoutDay")
    /\ fn' = "extract_tp_csv"
    /\ out' = build_mvp_dataset_csv(df)
    /\ daily' = aggregate_daily_csv(out')
    /\ weekly' = aggregate_weekly_csv(out')
    /\ outcome' = "ok"
    /\ UNCHANGED <<line, qres, res, ings, rows, planned_hours, weight_kg, day_type, targets, df,
                   platform>>

\* api/routes/nutrition.py: daily = normalize_and_aggregate_tp_df(df); out
\* keeps the mvp of lines 23-26
NormalizeAndAggregate ==
    /\ fn = "none"
    /\ fn' = "normalize_and_aggregate_tp_df"
    /\ \E na_week \in NaWeekLabels :
          /\ daily' = normalize_and_aggregate_tp_df(df, na_week)
          /\ out' = IF Empty(df) THEN out ELSE NormalizedMvp(df, na_week)
    /\ outcome' = IF daily'.exc = "none" THEN "ok" ELSE daily'.exc
    /\ UNCHANGED <<line, qres, res, ings, rows, planned_hours, weight_kg, day_type, targets, df,
                   weekly, platform>>

NextNormalize ==
    \/ ImportTpParsing
    \/ ParseTpDf
    \/ BuildMvpDataset
    \/ TpExtractAndViz
    \/ ExtractTpCsv
    \/ NormalizeAndAggregate

SpecNormalize == InitNormalize /\ [][NextNormalize]_vars

-----------------------------------------------------------------------------
(* Properties of the normalizer                                            *)

\* the canonical value of a raw column at row r: the cell read as a number
RawNumber(label, r) == ToNumeric(Get(df, label, r))

\* C13: the normalizer accepts a raw export with the PascalCase columns: the
\* canonical planned_hours is PlannedDuration, actual_hours is
\* TimeTotalInHours, planned_km is PlannedDistanceInMeters / 1000 and
\* actual_km is DistanceInMeters / 1000, while a column that arrives as
\* planned_km or actual_km is passed through without division.
C13_RawExport ==
    (fn = "build_mvp_dataset" /\ (Has(df, "WorkoutDay") \/ Has(df, "workout_day"))) =>
        /\ out.exc = "none"
        /\ Len(out.cells) = Len(df.cells)
        /\ \A r \in 1..Len(df.cells) :
              /\ Has(df, "PlannedDuration") =>
                     SameCell(Get(out, "planned_hours", r), RawNumber("PlannedDuration", r))
              /\ Has(df, "TimeTotalInHours") =>
                     SameCell(Get(out, "actual_hours", r), RawNumber("TimeTotalInHours", r))
              /\ Has(df, "PlannedDistanceInMeters") =>
                     SameCell(Get(out, "planned_km", r),
                              Div1000(RawNumber("PlannedDistanceInMeters", r)))
              /\ Has(df, "DistanceInMeters") =>
                     SameCell(Get(out, "actual_km", r),
                              Div1000(RawNumber("DistanceInMeters", r)))
              /\ Has(df, "planned_km") =>
                     SameCell(Get(out, "planned_km", r), RawNumber("planned_km", r))
              /\ Has(df, "actual_km") =>
                     SameCell(Get(out, "actual_km", r), RawNumber("actual_km", r))

KeysOf(table) == {table[i][1] : i \in 1..Len(table)}

\* the canonical fields, and the aliases of a field in the order of the
\* alias tables
CanonicalFields == KeysOf(RAW_COLUMNS) \cup KeysOf(MVP_COLUMNS)

AliasesOf(key) ==
    (IF key \in KeysOf(RAW_COLUMNS) THEN Candidates(RAW_COLUMNS, key) ELSE <<>>)
    \o (IF key \in KeysOf(MVP_COLUMNS) THEN Candidates(MVP_COLUMNS, key) ELSE <<>>)

\* C14: every column name is simplified (lower case, alphanumerics only);
\* each canonical field takes the column matched by the first of its
\* aliases whose simplified spelling is a simplified column name; a field
\* with no matching column is left unset in the result.
C14_AliasResolution ==
    fn = "parse_tp_df" =>
        \A key \in CanonicalFields :
            Let(_get_column(df.columns, AliasesOf(key)), LAMBDA column :
                IF column = "" THEN ~Has(out, key)
                ELSE /\ Has(out, key)
                     /\ \A r \in 1..Len(df.cells) : Get(out, key, r) = Get(df, column, r))

\* C15: has_actual is true for a workout record if and only if at least one
\* of actual_hours, actual_km and tss is non-null in that record; a row whose
\* only non-null actual metric is tss has has_actual = true.
C15_HasActual ==
    (fn \in {"build_mvp_dataset", "extract_tp_csv"} /\ out.exc = "none") =>
        \A r \in 1..Len(out.cells) :
            Get(out, "has_actual", r)
                = BoolCell(NotNa(Get(out, "actual_hours", r)) \/ NotNa(Get(out, "actual_km", r))
                           \/ NotNa(Get(out, "tss", r)))

\* the date column of the table, "" when it has none
DateColumn(t) == _get_column(t.columns, AliasesOf("workout_day"))

\* the rows of the table whose date cell cannot be parsed
UnparsedDays(t) ==
    {r \in 1..Len(t.cells) : DateColumn(t) # "" /\ ~NotNa(ToDate(Get(t, DateColumn(t), r)))}

\* C16: a row whose date cell cannot be parsed gets workout_day = null and
\* is retained: as many rows leave the normalizer as enter it, and no later
\* stage drops such a row unless it filters on planned_hours / planned_km.
C16_RowsRetained ==
    /\ (fn = "build_mvp_dataset" /\ DateColumn(df) # "") =>
           /\ out.exc = "none"
           /\ Len(out.cells) = Len(df.cells)
           /\ \A r \in UnparsedDays(df) : ~NotNa(Get(out, "workout_day", r))
    /\ (fn = "normalize_and_aggregate_tp_df" /\ UnparsedDays(df) # {}) =>
           /\ daily.exc = "none"
           /\ \E g \in 1..Len(daily.cells) : ~NotNa(Get(daily, "date", g))

\* the coercion of one cell as the specification states it: the commas of the text
\* dropped, the tokens "nan", "None" and "" null, the rest read as a number,
\* null when it is none
RefCoerce(c) ==
    IF c.t = "str"
    THEN Let(SelectSeq(Chars(c.s), LAMBDA ch : ch # ","), LAMBDA text :
             IF text \in {Chars("nan"), Chars("None"), <<>>} THEN NaNCell
             ELSE Let(FloatOf(text), LAMBDA x : IF x.k = "null" THEN NaNCell ELSE NumCell(x)))
    ELSE IF c.t = "num" THEN c
    ELSE NaNCell

\* C17: tolerant numeric coercion: for every cell of a numeric field the
\* thousands-separator commas are stripped ("1,234" becomes 1234), the
\* tokens "nan", "None" and "" become null, any other unparseable value
\* becomes null, and no cell makes the coercion raise.
C17_TolerantCoercion ==
    /\ (fn = "build_mvp_dataset" /\ Has(df, "Planned Hours")) =>
           /\ out.exc = "none"
           /\ \A r \in 1..Len(df.cells) :
                 SameCell(Get(out, "planned_hours", r), RefCoerce(Get(df, "Planned Hours", r)))
    /\ (fn = "extract_tp_csv" /\ Has(df, "PlannedDuration")) =>
           /\ out.exc = "none"
           /\ \A r \in 1..Len(df.cells) :
                 SameCell(Get(out, "planned_hours", r), RefCoerce(Get(df, "PlannedDuration", r)))

\* two tables with the same columns and the same values
SameTable(a, b) ==
    /\ a.exc = b.exc
    /\ a.columns = b.columns
    /\ Len(a.cells) = Len(b.cells)
    /\ \A r \in 1..Len(a.cells) : \A i \in 1..Len(a.columns) : SameCell(a.cells[r][i], b.cells[r][i])

\* C18: the normalizer is idempotent: parse_tp_df(parse_tp_df(T)) =
\* parse_tp_df(T) and build_mvp_dataset(build_mvp_dataset(T)) =
\* build_mvp_dataset(T) for every table T, raw exports with distance columns
\* in meters included.
C18_Idempotence ==
    /\ fn = "parse_tp_df" => SameTable(parse_tp_df(out), out)
    /\ (fn = "build_mvp_dataset" /\ out.exc = "none") =>
           \E na_week \in NaWeekLabels : SameTable(build_mvp_dataset(out, na_week), out)

\* the planned_hours of a table added up over the rows where it is non-null
TotalPlannedHours(t) == SumCells([r \in 1..Len(t.cells) |-> ToNumeric(Get(t, "planned_hours", r))])

\* C19: mass conservation of aggregation: the sum over all groups of the
\* daily aggregate's planned_hours is the sum of planned_hours over all rows
\* of the table whose planned_hours is non-null, rows with a null
\* workout_day included.
C19_MassConservation ==
    (fn \in {"tp_extract_and_viz", "extract_tp_csv", "normalize_and_aggregate_tp_df"}
     /\ outcome = "ok" /\ out # NoTable) =>
        TotalPlannedHours(daily) = TotalPlannedHours(out)

\* the aggregate of a table as the specification states it: a row for each key in
\* ascending order with the sums, the means and the number of rows
RefAggregateRow(t, group_field, key) ==
    [key |-> key,
     sums |-> [i \in 1..Len(sum_fields) |->
                  NumCell(SumCells(GroupCells(t, group_field, key, sum_fields[i])))],
     means |-> [i \in 1..Len(mean_fields) |->
                   NumCell(MeanCells(GroupCells(t, group_field, key, mean_fields[i])))],
     count |-> Len(GroupCells(t, group_field, key, group_field))]

\* the last column of an aggregate: the count of the group
CountColumn(agg) == agg.columns[Len(agg.columns)]

IsRefAggregate(agg, t, group_field) ==
    /\ agg.exc = "none"
    /\ Len(agg.cells) = Len(GroupKeys(t, group_field))
    /\ \A g \in 1..Len(agg.cells) :
          Let(RefAggregateRow(t, group_field, GroupKeys(t, group_field)[g]), LAMBDA ref :
              /\ SameCell(Get(agg, group_field, g), ref.key)
              /\ \A i \in 1..Len(sum_fields) :
                    Has(agg, sum_fields[i]) /\ SameCell(Get(agg, sum_fields[i], g), ref.sums[i])
              /\ \A i \in 1..Len(mean_fields) :
                    Has(agg, mean_fields[i]) /\ SameCell(Get(agg, mean_fields[i], g), ref.means[i])
              /\ Get(agg, CountColumn(agg), g) = NumCell(IntQ(ref.count)))

\* C20: the aggregator returns one row per distinct group key (day or week
\* label) in ascending key order, with the sum of planned_hours, planned_km,
\* actual_hours, actual_km and tss over the group's non-null values, the
\* mean of if, power_avg, hr_avg, rpe and feeling over the group's non-null
\* values, and a count equal to the number of rows of the group.
C20_Aggregator ==
    (fn \in {"tp_extract_and_viz", "extract_tp_csv"} /\ outcome = "ok") =>
        /\ IsRefAggregate(daily, out, "workout_day")
        /\ IsRefAggregate(weekly, out, "week")

-----------------------------------------------------------------------------
(* Properties of plan generation                                          *)

\* C24: in every plan-generation path a day whose planned_hours is missing
\* (an empty cell, read as not-a-number) is classified REST and gets an
\* intra-workout carbohydrate rate of 0.
C24_MissingHoursRest ==
    (fn = "main" /\ planned_hours.k = "nan" /\ targets.exc = "none") =>
        /\ day_type = "REST"
        /\ targets.intra_cho_g_per_h = 0

\* the energy of the returned macros: 4 kcal per gram of protein and of
\* carbohydrate, 9 per gram of fat
MacroEnergy(t) == 4 * t.protein_g + 4 * t.carbs_g + 9 * t.fat_g

\* C30: for every weight the boundary accepts (0 < weight_kg <= 250) and
\* every day type, the energy of the returned macros does not exceed the
\* returned calories beyond rounding: 4*protein_g + 4*carbs_g + 9*fat_g <=
\* kcal + 10.
C30_MacroEnergy ==
    (fn \in {"nutrition_targets", "main"} /\ IsNum(weight_kg)
     /\ LtQ(IntQ(0), weight_kg) /\ ~LtQ(IntQ(250), weight_kg)) =>
        /\ targets.exc = "none"
        /\ MacroEnergy(targets) <= targets.kcal + 10

\* C23: a completely empty table and a table without any columns both
\* normalize to an empty canonical table with the fixed output schema,
\* without raising.
C23_EmptyTable ==
    /\ (fn = "build_mvp_dataset" /\ Empty(df)) =>
           /\ out.exc = "none"
           /\ out.columns = MvpOutputColumns
           /\ out.cells = <<>>
    /\ (fn = "normalize_and_aggregate_tp_df" /\ Empty(df)) =>
           /\ daily.exc = "none"
           /\ daily.columns = <<"date", "planned_hours">>
           /\ daily.cells = <<>>


-----------------------------------------------------------------------------
(* api/routes/nutrition.py: POST /plan/nutrition                           *)

\* the Authorization headers sent: none, one that is no bearer token, a
\* bearer token whose payload has no "sub", and one whose "sub" is "alice"
AuthHeaders == {"none", "Basic abc", "Bearer nosub", "Bearer alice"}

\* services/auth.py: the user id, or the detail of the 401 raised
get_user_id_from_authorization(auth_header) ==
    IF auth_header = "none" THEN [exc |-> "401", detail |-> "Missing Authorization header", user_id |-> ""]
    ELSE IF ~StartsWith(Lower(Chars(auth_header)), Chars("bearer "))
    THEN [exc |-> "401", detail |-> "Invalid Authorization header", user_id |-> ""]
    ELSE IF auth_header = "Bearer nosub"
    THEN [exc |-> "401", detail |-> "Token missing sub claim", user_id |-> ""]
    ELSE [exc |-> "none", detail |-> "", user_id |-> "alice"]

\* the form field weight_kg: float, which reads "nan" and "inf" too
PlanWeights == {NanQ, InfQ, Num(0 - 1, 1), IntQ(0), Num(1, 2), IntQ(70), IntQ(250), Num(501, 2)}

\* line 80: weight_kg <= 0 or weight_kg > 250; every comparison with nan
\* is false
WeightRejected(w) ==
    \/ w.k = "inf"
    \/ LtQ(w, IntQ(0)) \/ EqQ(w, IntQ(0))
    \/ LtQ(IntQ(250), w)

\* the parameters of repositories/nutrition_repo.create_plan and the
\* keywords the route calls it with: a keyword that is no parameter
\* raises TypeError before the body runs
create_plan_parameters == {"user_key", "source_filename", "weight_kg", "rows"}
create_plan_keywords == {"user_id", "source_filename", "weight_kg", "rows"}
create_plan_raises == ~(create_plan_keywords \subseteq create_plan_parameters)

\* lines 96-117: one row of the plan from one row of daily_df
PlanRow(w, row) ==
    Let(IF NotNa(row[2]) /\ IsNum(row[2].v) /\ LtQ(IntQ(0), row[2].v) THEN row[2].v ELSE IntQ(0),
        LAMBDA hours :
            [date |-> IF row[1].t = "date" THEN DayOf(row[1]).s ELSE CellText(row[1]),
             day_type |-> classify_day(hours),
             targets |-> nutrition_targets(w, classify_day(hours), hours)])

Answer(status, detail, read, normalized, computed) ==
    [status |-> status, detail |-> detail, rows |-> <<>>, read |-> read,
     normalized |-> normalized, computed |-> computed, saved |-> FALSE]

\* plan_nutrition: the response to one request.  csv is "invalid" when
\* pd.read_csv raises on the upload and "table" when it reads the table t;
\* nan_json is the answer of the JSON encoder to a nan weight_kg
plan_nutrition(req, w, t, na_week, nan_json) ==
    Let(get_user_id_from_authorization(req.authorization), LAMBDA user :
    IF user.exc # "none" THEN Answer("401", user.detail, FALSE, FALSE, FALSE)
    ELSE IF WeightRejected(w)
    THEN Answer("400", "weight_kg must be a realistic positive number", FALSE, FALSE, FALSE)
    ELSE IF req.csv = "invalid" THEN Answer("400", "Invalid CSV file", TRUE, FALSE, FALSE)
    ELSE Let(normalize_and_aggregate_tp_df(t, na_week), LAMBDA daily_df :
         IF daily_df.exc # "none"
         THEN Answer("500", daily_df.exc, TRUE, FALSE, FALSE)
         ELSE Let([r \in 1..Len(daily_df.cells) |-> PlanRow(w, daily_df.cells[r])],
                  LAMBDA out_rows :
             IF \E r \in 1..Len(out_rows) : out_rows[r].targets.exc # "none"
             THEN Answer("500", "ValueError", TRUE, TRUE, TRUE)
             ELSE IF req.supabase_enabled /\ out_rows # <<>>
             THEN IF create_plan_raises
                  THEN Answer("500", "Failed to save plan", TRUE, TRUE, TRUE)
                  ELSE [Answer("200", "", TRUE, TRUE, TRUE)
                            EXCEPT !.rows = out_rows, !.saved = TRUE]
             ELSE IF w.k = "nan"
             THEN Answer(nan_json, "", TRUE, TRUE, out_rows # <<>>)
             ELSE [Answer("200", "", TRUE, TRUE, out_rows # <<>>) EXCEPT !.rows = out_rows])))

\* a column as pd.read_csv infers it: the texts "", "nan" and "None" are
\* read as NaN, and a column holds texts only when one of them is no number,
\* in which case its numbers are texts too
IsCsvColumn(cells) ==
    /\ \A i \in 1..Len(cells) : ~(cells[i].t = "str" /\ cells[i].s \in {"", "nan", "None"})
    /\ (\E i \in 1..Len(cells) : cells[i].t = "str") =>
           /\ \A i \in 1..Len(cells) : cells[i].t = "num" => cells[i].v.k = "nan"
           /\ \E i \in 1..Len(cells) :
                  cells[i].t = "str" /\ FloatOf(Chars(cells[i].s)).k = "null"

\* the tables pd.read_csv returns: a file with no columns raises
CsvTables ==
    {t \in Tables : /\ t.columns # <<>>
                    /\ \A c \in 1..Len(t.columns) : IsCsvColumn(Column(t, t.columns[c]))}

Requests ==
    [authorization : AuthHeaders, csv : {"invalid", "table"}, supabase_enabled : BOOLEAN]

InitPlan ==
    /\ request \in Requests
    /\ weight_kg \in PlanWeights
    /\ df \in IF request.csv = "table" THEN CsvTables ELSE {NoTable}
    /\ response = NoResponse
    /\ fn = "none"
    /\ outcome = "none"
    /\ line = <<>>
    /\ res = NoResult
    /\ qres = NullQ
    /\ ings = <<>>
    /\ rows = <<>>
    /\ planned_hours = NullQ
    /\ day_type = "none"
    /\ targets = NoTargets
    /\ out = NoTable
    /\ daily = NoTable
    /\ weekly = NoTable
    /\ db = NoDb
    /\ offset = 0
    /\ processed = 0
    /\ batch_size = 0
    /\ num_chunks = 0
    /\ input_lines = <<>>
    /\ chunk_files = <<>>

\* one request to POST /plan/nutrition
PlanNutrition ==
    /\ fn = "none"
    /\ fn' = "plan_nutrition"
    /\ \E na_week \in NaWeekLabels, nan_json \in {"200", "500"} :
          response' = plan_nutrition(request, weight_kg, df, na_week, nan_json)
    /\ UNCHANGED <<recipes, request, planned_hours, weight_kg, day_type, targets, df, out, daily,
                   weekly, db, offset, processed, batch_size, num_chunks, input_lines,
                   chunk_files>>

NextPlan == ImportTpParsing \/ PlanNutrition

SpecPlan == InitPlan /\ [][NextPlan]_vars


\* tp_normalize.py line 8
REQUIRED_COLUMNS == {"workout_day", "planned_hours"}

\* the column of the upload that normalization takes for the key, "" when
\* there is none
ColumnFor(df0, key) ==
    Let(StripColumns(df0).columns, LAMBDA columns :
        IF key \in Range(columns) THEN key
        ELSE _get_column(columns, Candidates(IF has_mvp(columns) THEN MVP_COLUMNS
                                                ELSE RAW_COLUMNS, key)))

MissingColumns(df0) == {key \in REQUIRED_COLUMNS : ColumnFor(df0, key) = ""}

\* the request passes authorization, the weight test and pd.read_csv
Accepted ==
    /\ get_user_id_from_authorization(request.authorization).exc = "none"
    /\ ~WeightRejected(weight_kg) /\ IsNum(weight_kg)
    /\ request.csv = "table"

\* C21: an upload that has no column for workout_day or for planned_hours
\* after normalization, and has rows, is answered with a client error
\* (status 400), never with a successful response
C21_MissingColumns ==
    (fn = "plan_nutrition" /\ Accepted /\ MissingColumns(df) # {} /\ df.cells # <<>>) =>
        response.status = "400"

\* C22: a request whose weight_kg is not within 0 < weight_kg <= 250 is
\* answered with a client error before the upload is read or normalized
\* and before any target is computed, and nothing is saved for it
C22_WeightRejected ==
    (fn = "plan_nutrition" /\ ~(LtQ(IntQ(0), weight_kg) /\ ~LtQ(IntQ(250), weight_kg)
                                 /\ IsNum(weight_kg))) =>
        /\ response.status \in {"400", "401"}
        /\ ~response.read /\ ~response.normalized /\ ~response.computed
        /\ ~response.saved


-----------------------------------------------------------------------------
(* scripts/normalize_recipe_ingredients.py: main                           *)

\* the most rows of recipe_ingredients, and the largest BATCH_SIZE
MaxPending == 4
MaxBatch == 2

\* a row of recipe_ingredients: raw_line is never null, name is null while
\* name_null holds; fetched records that main fetched and parsed the row
IngredientRow(raw_line, stored, name_null) ==
    [raw_line |-> raw_line, stored |-> stored, name_null |-> name_null, fetched |-> FALSE]

PendingLines == {Chars("1 cup flour"), Chars("salt"), Chars(""), Chars("1/0 salt")}

IngredientRows ==
    {IngredientRow(l, NoResult, TRUE) : l \in PendingLines}
    \cup {IngredientRow(Chars("salt"), Parsed(NullQ, None, Chars("salt"), NullQ, None), FALSE)}

\* .is_("name", "null").is_("raw_line", "not_null"): the rows pending
Pending(table) == {i \in 1..Len(table) : table[i].name_null}

\* .limit(BATCH_SIZE).offset(offset) of the pending rows, which the query
\* does not order: any rows that an order of them puts at the places
\* offset + 1 .. offset + BATCH_SIZE
Fetches(table, limit, skip) ==
    {S \in SUBSET Pending(table) :
        Cardinality(S) = Min({limit, Max({0, Cardinality(Pending(table)) - skip})})}

\* lines 271-287: the row after the update main writes for it, the row
\* itself when the parse changes nothing
Normalized(r) ==
    Let(parse_raw_line(r.raw_line), LAMBDA p :
    Let(normalize_text(p.name), LAMBDA name_new :
        IF /\ r.stored.quantity = p.quantity
           /\ r.stored.unit = p.unit
           /\ (IF r.name_null THEN <<>> ELSE r.stored.name) = name_new
           /\ r.stored.package_qty = p.package_qty
           /\ r.stored.package_unit = p.package_unit
        THEN [r EXCEPT !.fetched = TRUE]
        ELSE [r EXCEPT !.fetched = TRUE, !.name_null = FALSE,
                       !.stored = [p EXCEPT !.name = name_new]]))

InitMain ==
    /\ db \in {[NoDb EXCEPT !.recipe_ingredients = t] :
                  t \in UNION {[1..n -> IngredientRows] : n \in 0..MaxPending}}
    /\ batch_size \in 1..MaxBatch
    /\ offset = 0
    /\ processed = 0
    /\ fn = "none"
    /\ outcome = "none"
    /\ line = <<>>
    /\ res = NoResult
    /\ qres = NullQ
    /\ ings = <<>>
    /\ rows = <<>>
    /\ planned_hours = NullQ
    /\ weight_kg = Num(0, 1)
    /\ day_type = "none"
    /\ targets = NoTargets
    /\ df = NoTable
    /\ out = NoTable
    /\ daily = NoTable
    /\ weekly = NoTable
    /\ request = NoRequest
    /\ response = NoResponse
    /\ num_chunks = 0
    /\ input_lines = <<>>
    /\ chunk_files = <<>>

MainUnchanged ==
    UNCHANGED <<line, qres, res, ings, rows, planned_hours, weight_kg, day_type, targets, df, out,
                daily, weekly, request, response, batch_size, num_chunks, input_lines,
                chunk_files>>

\* one turn of the loop that fetches rows (MAX_ROWS = 0): every row of the
\* batch is parsed, the changed ones are written back, and the offset
\* advances by BATCH_SIZE; a parse that raises ends main in the handler
\* of line 314
NormalizeBatch ==
    /\ fn \in {"none", "main"}
    /\ \E S \in Fetches(db.recipe_ingredients, batch_size, offset) :
          /\ S # {}
          /\ IF \E i \in S : parse_raw_line(db.recipe_ingredients[i].raw_line).exc
             THEN /\ fn' = "error"
                  /\ outcome' = "Error"
                  /\ UNCHANGED <<db, offset, processed>>
             ELSE /\ fn' = "main"
                  /\ outcome' = outcome
                  /\ db' = [db EXCEPT !.recipe_ingredients =
                               [i \in 1..Len(@) |-> IF i \in S THEN Normalized(@[i]) ELSE @[i]]]
                  /\ processed' = processed
                        + Cardinality({i \in S : ~db'.recipe_ingredients[i].name_null})
                  /\ offset' = offset + batch_size
    /\ MainUnchanged

\* the turn whose fetch returns no row: "Done. No more rows pending."
NormalizeDone ==
    /\ fn \in {"none", "main"}
    /\ {} \in Fetches(db.recipe_ingredients, batch_size, offset)
    /\ fn' = "done"
    /\ outcome' = "Done. No more rows pending."
    /\ UNCHANGED <<db, offset, processed>>
    /\ MainUnchanged

\* a call of the storage raises: main prints the error and returns
NormalizeError ==
    /\ fn \in {"none", "main"}
    /\ fn' = "error"
    /\ outcome' = "Error"
    /\ UNCHANGED <<db, offset, processed>>
    /\ MainUnchanged

NextMain == NormalizeBatch \/ NormalizeDone \/ NormalizeError

SpecMain == InitMain /\ [][NextMain]_vars

\* C25: when main stops with "Done. No more rows pending.", every row that
\* was pending at the start has been fetched and parsed in some batch: no
\* row with a null name remains that no batch fetched
C25_AllPendingProcessed ==
    fn = "done" =>
        \A i \in 1..Len(db.recipe_ingredients) :
            db.recipe_ingredients[i].name_null => db.recipe_ingredients[i].fetched


-----------------------------------------------------------------------------
(* Lines with unicode vulgar fractions                                     *)

\* the words of the lines: whole numbers, vulgar fractions alone and
\* written directly behind a whole number, a unit and a name
VocabFraction ==
    { <<"1">>, <<"2">>, <<"U+00BD">>, <<"U+00BC">>, <<"1", "U+00BD">>, <<"2", "U+00BE">>,
      Chars("cups"), Chars("flour") }

InitFraction ==
    /\ line \in {Line(ws) : ws \in WordSeqs(VocabFraction)}
    /\ fn = "none"
    /\ res = NoResult
    /\ qres = NullQ
    /\ ings = <<>>
    /\ rows = <<>>
    /\ outcome = "none"
    /\ NoTraining

SpecFraction == InitFraction /\ [][Next]_vars

\* the line starts with a whole number of one digit directly followed by a
\* vulgar fraction
Glued(s) == Len(s) >= 2 /\ IsDigit(s[1]) /\ s[2] \in DOMAIN UNICODE_FRACTIONS

\* C29: a line that starts with a whole number directly followed by a
\* unicode vulgar fraction parses to the mixed number whole + fraction, the
\* quantity of the same line written with a space between the two
C29_GluedFraction ==
    (fn = "parse_raw_line" /\ Glued(line)) =>
        /\ ~res.exc
        /\ res.quantity = AddQ(IntQ(DigitVal(line[1])), parse_quantity(UNICODE_FRACTIONS[line[2]]))
        /\ res.quantity = parse_raw_line(<<line[1], " ">> \o Tail(line)).quantity


-----------------------------------------------------------------------------
(* split_jsonl.py: split_file                                              *)

\* the longest input, in lines, and the largest NUM_CHUNKS
MaxLines == 4
MaxChunks == 3

\* a line of the input: its text and the newline that ends it, "LF" or a
\* lone "CR"
InputLines == [s : {"a", "b"}, nl : {"LF", "CR"}]

\* Python's a // b, b # 0
FloorDiv(a, b) == IF b > 0 THEN a \div b ELSE (0 - a) \div (0 - b)

\* count_lines reads the file in binary mode, where only "LF" ends a line
count_lines(lines) ==
    Cardinality({i \in 1..Len(lines) : lines[i].nl = "LF"})
    + (IF lines # <<>> /\ lines[Len(lines)].nl # "LF" THEN 1 ELSE 0)

\* lines 41-47 with every chunk opened for writing at any line
OpenChunkAlways(files, current_chunk, current_count) ==
    IF current_chunk + 1 <= Len(files) THEN [files EXCEPT ![current_chunk + 1] = <<>>]
    ELSE Append(files, <<>>)

\* lines 41-47: a chunk file is opened for writing, which empties it, when
\* the chunk has no line yet; files[k + 1] is the content of chunk k
OpenChunk(files, current_chunk, current_count) ==
    IF current_count = 0
    THEN IF current_chunk + 1 <= Len(files) THEN [files EXCEPT ![current_chunk + 1] = <<>>]
         ELSE Append(files, <<>>)
    ELSE files

\* lines 38-56: the loop over the lines, read in text mode, where "CR"
\* ends a line too and every newline is read as "\n"
RECURSIVE SplitLoop(_, _, _, _, _, _)
SplitLoop(lines, lines_per_chunk, n, current_chunk, current_count, files) ==
    IF lines = <<>> THEN files
    ELSE Let(OpenChunk(files, current_chunk, current_count), LAMBDA opened :
         Let([opened EXCEPT ![current_chunk + 1] = Append(@, Head(lines).s)], LAMBDA written :
             IF current_count + 1 >= lines_per_chunk /\ current_chunk < n - 1
             THEN SplitLoop(Tail(lines), lines_per_chunk, n, current_chunk + 1, 0, written)
             ELSE SplitLoop(Tail(lines), lines_per_chunk, n, current_chunk, current_count + 1,
                            written)))

split_file(lines, n) ==
    IF n = 0 THEN [exc |-> "ZeroDivisionError", files |-> <<>>]
    ELSE [exc |-> "none",
          files |-> SplitLoop(lines, FloorDiv(count_lines(lines) + n - 1, n), n, 0, 0, <<>>)]

InitSplit ==
    /\ input_lines \in UNION {[1..k -> InputLines] : k \in 0..MaxLines}
    /\ num_chunks \in (0 - 1)..MaxChunks
    /\ chunk_files = <<>>
    /\ fn = "none"
    /\ outcome = "none"
    /\ line = <<>>
    /\ res = NoResult
    /\ qres = NullQ
    /\ ings = <<>>
    /\ rows = <<>>
    /\ planned_hours = NullQ
    /\ weight_kg = Num(0, 1)
    /\ day_type = "none"
    /\ targets = NoTargets
    /\ df = NoTable
    /\ out = NoTable
    /\ daily = NoTable
    /\ weekly = NoTable
    /\ request = NoRequest
    /\ response = NoResponse
    /\ db = NoDb
    /\ offset = 0
    /\ processed = 0
    /\ batch_size = 0

\* chunk_files = split_file(INPUT_PATH, NUM_CHUNKS, OUTPUT_DIR)
SplitFile ==
    /\ fn = "none"
    /\ fn' = "split_file"
    /\ chunk_files' = split_file(input_lines, num_chunks).files
    /\ outcome' = IF split_file(input_lines, num_chunks).exc = "none" THEN "ok"
                  ELSE split_file(input_lines, num_chunks).exc
    /\ UNCHANGED <<line, qres, res, ings, rows, planned_hours, weight_kg, day_type, targets, df,
                   out, daily, weekly, request, response, db, offset, processed, batch_size,
                   num_chunks, input_lines>>

NextSplit == SplitFile

SpecSplit == InitSplit /\ [][NextSplit]_vars

\* the chunk files read top to bottom, one after the other in index order
RECURSIVE Concat(_)
Concat(files) == IF files = <<>> THEN <<>> ELSE Head(files) \o Concat(Tail(files))

\* the chunk files hold the lines of the input, each once and in the order
\* of the input, there are no more than num_chunks of them, and none is empty
IsPartition ==
    /\ Concat(chunk_files) = [i \in 1..Len(input_lines) |-> input_lines[i].s]
    /\ Len(chunk_files) <= num_chunks
    /\ \A k \in 1..Len(chunk_files) : chunk_files[k] # <<>>

\* C27 as the specification states it: split_file partitions its input for
\* every input and every num_chunks
C27_PartitionAnyChunks == fn = "split_file" => IsPartition

\* C27: for num_chunks >= 1, split_file partitions its input: every line is
\* written to exactly one chunk file, the chunk files in index order
\* reproduce the input order, there are no more than num_chunks chunk
\* files, and no chunk file is empty
C27_Partition == (fn = "split_file" /\ num_chunks >= 1) => IsPartition

\* an input split unevenly over several chunk files, with a line that a
\* lone carriage return ends
C27_Witness ==
    /\ fn = "split_file"
    /\ Len(chunk_files) >= 2
    /\ Len(input_lines) > Len(chunk_files)
    /\ \E i \in 1..Len(input_lines) : input_lines[i].nl = "CR"


-----------------------------------------------------------------------------
(* scripts/import_recipenlg.py and scripts/import_recipenlg_v4.py:         *)
(* import_batch run on the same rows again                                 *)

\* the most rows in a batch and the most runs of import_batch
MaxBatchRows == 2
MaxRuns == 2

\* the recipes of the dataset by fingerprint, the hash of their title,
\* ingredients and directions
Fingerprints == {"f1", "f2"}
IngredientsOf(fp) == IF fp = "f1" THEN <<"1 c. sugar", "salt">> ELSE <<"2 eggs">>
DirectionsOf(fp) == IF fp = "f1" THEN <<"Mix.">> ELSE <<>>

\* the storage call that raises in a run, if any
Failures == {"none", "recipes", "delete", "ingredients", "steps"}

Count(seq, x) == Cardinality({i \in 1..Len(seq) : seq[i] = x})

\* the rows of recipes with the fingerprint, by position
WithFingerprint(recs, fp) == {i \in 1..Len(recs) : recs[i].fingerprint = fp}

\* insert(records): every record gets a new id
InsertRecipes(recs, fps) ==
    recs \o [i \in 1..Len(fps) |-> [id |-> Len(recs) + i, fingerprint |-> fps[i]]]

\* the storage rejects the insert: a recipe of the batch is in the table
\* already, or twice in the batch (rows of one fingerprint have one title)
Duplicate(recs, fps) ==
    \E i \in 1..Len(fps) :
        \/ WithFingerprint(recs, fps[i]) # {}
        \/ \E j \in 1..Len(fps) : j # i /\ fps[j] = fps[i]

\* v4 lines 180-187: the records inserted one by one, a rejected one skipped
RECURSIVE InsertOneByOne(_, _)
InsertOneByOne(recs, fps) ==
    IF fps = <<>> THEN recs
    ELSE InsertOneByOne(IF Duplicate(recs, <<Head(fps)>>) THEN recs
                        ELSE InsertRecipes(recs, <<Head(fps)>>), Tail(fps))

\* the dict fingerprint -> id built from a select, which the query does
\* not order: the id of the row returned last, 0 for no row
IdOf(recs, fp, last) ==
    IF WithFingerprint(recs, fp) = {} THEN 0
    ELSE recs[IF last THEN Max(WithFingerprint(recs, fp)) ELSE Min(WithFingerprint(recs, fp))].id

\* the ingredient rows and the step rows of the batch, for the rows whose
\* recipe id is known
RECURSIVE IngredientRowsOf(_, _, _)
IngredientRowsOf(fps, recs, last) ==
    IF fps = <<>> THEN <<>>
    ELSE (IF IdOf(recs, Head(fps), last) = 0 THEN <<>>
          ELSE [idx \in 1..Len(IngredientsOf(Head(fps))) |->
                   [recipe_id |-> IdOf(recs, Head(fps), last), sort_order |-> idx,
                    raw_line |-> IngredientsOf(Head(fps))[idx]]])
         \o IngredientRowsOf(Tail(fps), recs, last)

RECURSIVE StepRowsOf(_, _, _)
StepRowsOf(fps, recs, last) ==
    IF fps = <<>> THEN <<>>
    ELSE (IF IdOf(recs, Head(fps), last) = 0 THEN <<>>
          ELSE [idx \in 1..Len(DirectionsOf(Head(fps))) |->
                   [recipe_id |-> IdOf(recs, Head(fps), last), step_number |-> idx,
                    instruction |-> DirectionsOf(Head(fps))[idx]]])
         \o StepRowsOf(Tail(fps), recs, last)

Returned(d, exc) == [db |-> d, exc |-> exc]

\* lines 241-255 of v4, 294-312 of import_recipenlg.py: the inserts of the
\* ingredient rows and of the step rows
InsertRows(d, ingredients_rows, steps_rows, fail) ==
    IF fail = "ingredients" /\ ingredients_rows # <<>> THEN Returned(d, "Exception")
    ELSE Let([d EXCEPT !.recipe_ingredients = @ \o ingredients_rows], LAMBDA d1 :
             IF fail = "steps" /\ steps_rows # <<>> THEN Returned(d1, "Exception")
             ELSE Returned([d1 EXCEPT !.recipe_steps = @ \o steps_rows], "none"))

\* scripts/import_recipenlg_v4.py import_batch on the rows with the
\* fingerprints fps
import_batch_v4(d, fps, fail, last) ==
    IF fps = <<>> THEN Returned(d, "none")
    ELSE IF fail = "recipes" THEN Returned(d, "RuntimeError")
    ELSE Let(IF d.unique /\ Duplicate(d.recipes, fps) THEN InsertOneByOne(d.recipes, fps)
             ELSE InsertRecipes(d.recipes, fps), LAMBDA recs :
             InsertRows([d EXCEPT !.recipes = recs], IngredientRowsOf(fps, recs, last),
                        StepRowsOf(fps, recs, last), fail))

\* lines 191-196 of import_recipenlg.py: the rows of the batch whose
\* fingerprint the select did not return
to_insert(d, fps) == SelectSeq(fps, LAMBDA fp : WithFingerprint(d.recipes, fp) = {})

\* lines 221-230: the ingredients and steps of the recipes of the batch
\* deleted, unless the delete raises, which is only printed
Cleanup(d, fps, fail, last) ==
    IF fail = "delete" THEN d
    ELSE [d EXCEPT
            !.recipe_ingredients =
                SelectSeq(@, LAMBDA row : \A i \in 1..Len(fps) :
                                              row.recipe_id # IdOf(d.recipes, fps[i], last)),
            !.recipe_steps =
                SelectSeq(@, LAMBDA row : \A i \in 1..Len(fps) :
                                              row.recipe_id # IdOf(d.recipes, fps[i], last))]

\* scripts/import_recipenlg.py import_batch.  The insert of two records of
\* one fingerprint is rejected by a storage that keeps recipes unique, and
\* the update of a fingerprint that two recipes have sets one id on both,
\* which the primary key rejects; both raise out of import_batch.
import_batch(d, fps, fail, last) ==
    IF fail = "recipes" THEN Returned(d, "Exception")
    ELSE IF d.unique /\ Duplicate(<<>>, to_insert(d, fps)) THEN Returned(d, "Exception")
    ELSE Let([d EXCEPT !.recipes = InsertRecipes(@, to_insert(d, fps))], LAMBDA d1 :
         IF \E i \in 1..Len(fps) :
                /\ WithFingerprint(d.recipes, fps[i]) # {}
                /\ Cardinality(WithFingerprint(d1.recipes, fps[i])) > 1
         THEN Returned(d1, "Exception")
         ELSE Let(Cleanup(d1, fps, fail, IF to_insert(d, fps) # <<>> THEN TRUE ELSE last),
                  LAMBDA d2 :
                  InsertRows(d2,
                             IngredientRowsOf(fps, d2.recipes,
                                              IF to_insert(d, fps) # <<>> THEN TRUE ELSE last),
                             StepRowsOf(fps, d2.recipes,
                                        IF to_insert(d, fps) # <<>> THEN TRUE ELSE last),
                             fail)))

InitReimport ==
    /\ rows \in UNION {[1..n -> Fingerprints] : n \in 0..MaxBatchRows}
    /\ db \in {[recipes |-> <<>>, recipe_ingredients |-> <<>>, recipe_steps |-> <<>>,
                unique |-> u] : u \in BOOLEAN}
    /\ processed = 0
    /\ fn = "none"
    /\ outcome = "none"
    /\ line = <<>>
    /\ res = NoResult
    /\ qres = NullQ
    /\ ings = <<>>
    /\ planned_hours = NullQ
    /\ weight_kg = Num(0, 1)
    /\ day_type = "none"
    /\ targets = NoTargets
    /\ df = NoTable
    /\ out = NoTable
    /\ daily = NoTable
    /\ weekly = NoTable
    /\ request = NoRequest
    /\ response = NoResponse
    /\ offset = 0
    /\ batch_size = 0
    /\ num_chunks = 0
    /\ input_lines = <<>>
    /\ chunk_files = <<>>

ReimportUnchanged ==
    UNCHANGED <<line, qres, res, ings, rows, planned_hours, weight_kg, day_type, targets, df, out,
                daily, weekly, request, response, offset, batch_size, num_chunks, input_lines,
                chunk_files>>

\* one run of scripts/import_recipenlg_v4.py over the rows; processed
\* counts the runs
ImportBatchV4 ==
    /\ fn \in {"none", "import_recipenlg_v4"}
    /\ processed < MaxRuns
    /\ fn' = "import_recipenlg_v4"
    /\ processed' = processed + 1
    /\ \E fail \in Failures, last \in BOOLEAN :
          /\ db' = import_batch_v4(db, rows, fail, last).db
          /\ outcome' = IF import_batch_v4(db, rows, fail, last).exc = "none" THEN "ok"
                        ELSE import_batch_v4(db, rows, fail, last).exc
    /\ ReimportUnchanged

\* one run of scripts/import_recipenlg.py over the rows
ImportBatchV1 ==
    /\ fn \in {"none", "import_recipenlg"}
    /\ processed < MaxRuns
    /\ fn' = "import_recipenlg"
    /\ processed' = processed + 1
    /\ \E fail \in Failures, last \in BOOLEAN :
          /\ db' = import_batch(db, rows, fail, last).db
          /\ outcome' = IF import_batch(db, rows, fail, last).exc = "none" THEN "ok"
                        ELSE import_batch(db, rows, fail, last).exc
    /\ ReimportUnchanged

NextReimport == ImportBatchV4 \/ ImportBatchV1

SpecReimport == InitReimport /\ [][NextReimport]_vars

\* one recipe for each fingerprint of the rows, and no ingredient row and
\* no step row twice
OnePerFingerprint(d) ==
    /\ \A i \in 1..Len(rows) : Cardinality(WithFingerprint(d.recipes, rows[i])) = 1
    /\ \A i \in 1..Len(d.recipe_ingredients) :
           Count(d.recipe_ingredients, d.recipe_ingredients[i]) = 1
    /\ \A i \in 1..Len(d.recipe_steps) : Count(d.recipe_steps, d.recipe_steps[i]) = 1

\* the same rows, in any order
SameRows(a, b) == \A x \in Range(a) \cup Range(b) : Count(a, x) = Count(b, x)

\* C26: a first run of import_batch that returns leaves one recipe per
\* fingerprint and no duplicated ingredient or step row, also for two rows
\* of one fingerprint in the batch; a second run on the same rows that
\* returns, also one whose cleanup delete failed, leaves the recipes and
\* each recipe's ingredient and step rows as they were after the first
C26_Idempotent ==
    /\ [](processed = 1 /\ outcome = "ok" => OnePerFingerprint(db))
    /\ [][(processed = 1 /\ outcome = "ok" /\ processed' = 2 /\ outcome' = "ok") =>
              /\ OnePerFingerprint(db')
              /\ db'.recipes = db.recipes
              /\ SameRows(db.recipe_ingredients, db'.recipe_ingredients)
              /\ SameRows(db.recipe_steps, db'.recipe_steps)]_vars


-----------------------------------------------------------------------------
(* import_jsonl_async.py and import_100k_parsing.py: the writes of main    *)

\* the most records in the input
MaxRecords == 2

\* the source_uid of the records; every record has one step and one
\* ingredient
SourceUids == {"s1", "s2"}

\* the id of the recipe stored before the run, and the uuid4 drawn for the
\* k-th record of the run
Uuid4(k) == 10 + k
StoredId == Uuid4(0)

Ids(recs) == {recs[i].id : i \in 1..Len(recs)}

\* insert(rows) into a table that refers to recipes: a storage that
\* enforces the reference rejects rows whose recipe_id is no recipe's id
Rejected(d, rows_in) ==
    d.fk /\ \E i \in 1..Len(rows_in) : rows_in[i].recipe_id \notin Ids(d.recipes)

StepsOf(recipe_id) == <<[recipe_id |-> recipe_id, step_number |-> 1, instruction |-> "Mix."]>>
IngsOf(recipe_id) == <<[recipe_id |-> recipe_id, sort_order |-> 1, raw_line |-> "salt"]>>

\* import_jsonl_async.py lines 274-295: the k-th record, whose source_uid
\* is uid, written; fail names the storage call that raises, and every
\* exception is passed over
Upsert(d, uid, k, fail) ==
    IF fail = "recipes" THEN d
    ELSE Let(IF \E i \in 1..Len(d.recipes) : d.recipes[i].source_uid = uid
             THEN d  \* update(...).eq("id", recipe_data["id"]) matches no row
             ELSE [d EXCEPT !.recipes = Append(@, [id |-> Uuid4(k), source_uid |-> uid])],
             LAMBDA d1 :
                 IF fail = "steps" \/ Rejected(d1, StepsOf(Uuid4(k))) THEN d1
                 ELSE Let([d1 EXCEPT !.recipe_steps = @ \o StepsOf(Uuid4(k))], LAMBDA d2 :
                          IF fail = "ingredients" \/ Rejected(d2, IngsOf(Uuid4(k))) THEN d2
                          ELSE [d2 EXCEPT !.recipe_ingredients = @ \o IngsOf(Uuid4(k))]))

\* import_100k_parsing.py insert_data: the rows inserted, or not when the
\* three attempts fail
insert_data(d, table, rows_in, ok) ==
    IF rows_in = <<>> \/ ~ok \/ (table # "recipes" /\ Rejected(d, rows_in)) THEN d
    ELSE [d EXCEPT ![table] = @ \o rows_in]

RECURSIVE Flatten(_)
Flatten(seqs) == IF seqs = <<>> THEN <<>> ELSE Head(seqs) \o Flatten(Tail(seqs))

\* import_100k_parsing.py lines 371-386: the batch of n recipes flushed,
\* each insert whether or not the one before worked
Flush(d, n, ok_r, ok_i, ok_s) ==
    Let(insert_data(d, "recipes", [k \in 1..n |-> [id |-> Uuid4(k), source_uid |-> ""]], ok_r),
        LAMBDA d1 :
    Let(insert_data(d1, "recipe_ingredients", Flatten([k \in 1..n |-> IngsOf(Uuid4(k))]), ok_i),
        LAMBDA d2 :
        insert_data(d2, "recipe_steps", Flatten([k \in 1..n |-> StepsOf(Uuid4(k))]), ok_s)))

InitIntegrity ==
    /\ rows \in UNION {[1..n -> SourceUids] : n \in 0..MaxRecords}
    /\ db \in {[recipes |-> recs, recipe_ingredients |-> <<>>, recipe_steps |-> <<>>, fk |-> fk] :
                  recs \in {<<>>, <<[id |-> StoredId, source_uid |-> "s1"]>>}, fk \in BOOLEAN}
    /\ processed = 0
    /\ fn = "none"
    /\ outcome = "none"
    /\ line = <<>>
    /\ res = NoResult
    /\ qres = NullQ
    /\ ings = <<>>
    /\ planned_hours = NullQ
    /\ weight_kg = Num(0, 1)
    /\ day_type = "none"
    /\ targets = NoTargets
    /\ df = NoTable
    /\ out = NoTable
    /\ daily = NoTable
    /\ weekly = NoTable
    /\ request = NoRequest
    /\ response = NoResponse
    /\ offset = 0
    /\ batch_size = 0
    /\ num_chunks = 0
    /\ input_lines = <<>>
    /\ chunk_files = <<>>

\* import_jsonl_async.py: the next record of the batch written; processed
\* counts the records
UpsertRecipe ==
    /\ fn \in {"none", "import_jsonl_async"}
    /\ processed < Len(rows)
    /\ fn' = "import_jsonl_async"
    /\ processed' = processed + 1
    /\ \E fail \in {"none", "recipes", "steps", "ingredients"} :
          db' = Upsert(db, rows[processed + 1], processed + 1, fail)
    /\ outcome' = "ok"
    /\ ReimportUnchanged

\* import_100k_parsing.py: the batch of all rows flushed
Flush100k ==
    /\ fn = "none"
    /\ rows # <<>>
    /\ fn' = "import_100k_parsing"
    /\ processed' = Len(rows)
    /\ \E ok_r \in BOOLEAN, ok_i \in BOOLEAN, ok_s \in BOOLEAN :
          /\ db' = Flush(db, Len(rows), ok_r, ok_i, ok_s)
          /\ outcome' = IF ok_r /\ ok_i /\ ok_s THEN "ok" ELSE "Batch con errores"
    /\ ReimportUnchanged

NextIntegrity == UpsertRecipe \/ Flush100k

SpecIntegrity == InitIntegrity /\ [][NextIntegrity]_vars

\* C28: every recipe_ingredients row and every recipe_steps row that an
\* import driver wrote carries the id of a row of recipes, also when a
\* recipe of the same source_uid was stored already and when a storage
\* call fails
C28_ReferentialIntegrity ==
    fn \in {"import_jsonl_async", "import_100k_parsing"} =>
        /\ \A i \in 1..Len(db.recipe_ingredients) :
               db.recipe_ingredients[i].recipe_id \in Ids(db.recipes)
        /\ \A i \in 1..Len(db.recipe_steps) : db.recipe_steps[i].recipe_id \in Ids(db.recipes)

====
